---- MODULE Spec2Model ----
(***************************************************************************)
(* A model of the chatflow graph builder (class Workflow) and of the       *)
(* components it owns: the id generator, the position calculator, the      *)
(* variable tracker, the edge manager and the node / block generators.     *)
(*                                                                         *)
(* Python values are modelled as follows.                                  *)
(*   str            a TLA+ string; string concatenation is \o              *)
(*   None           the string None (no id, name or handle equals it)      *)
(*   dict           a record with the dict's keys                          *)
(*   list           a sequence                                             *)
(*   Optional[dict] a sequence of length 0 (None) or 1                     *)
(*   uuid4()        the n-th call returns uuid(n): fresh, never repeated   *)
(***************************************************************************)
EXTENDS Integers, Sequences, FiniteSets, TLC

VARIABLES
    nodes,                  \* Workflow.nodes
    start_node,             \* Workflow.start_node
    edges,                  \* Workflow.edge_manager.edges
    variables,              \* Workflow.variable_tracker._variables (insertion order)
    functional_node_count,  \* Workflow.position_calc.functional_node_count
    block_node_count,       \* Workflow.position_calc.block_node_count
    last_block_id,          \* Workflow.last_block_id
    node_handles,           \* Workflow.node_handles
    block_to_func,          \* Workflow.block_to_func
    func_to_block,          \* Workflow.func_to_block
    flow_uuid,              \* Workflow.flow_uuid
    intention_uuid,         \* Workflow.intention_uuid
    uuid_count,             \* number of uuid4() values drawn so far
    calls,                  \* number of calls made so far
    last_call,              \* the most recent call: its name, arguments and outcome
    tool_call,              \* agent/tools.py: the tool call in progress, or the last one
    pc,                     \* where that call stands: idle, steps, uploading, done
    steps,                  \* generate_workflow: the steps its loop has yet to process
    requests,               \* save_workflow_to_file: the upload requests issued, answered
    result,                 \* what the tool call returned (a sequence of length 0 or 1)
    other,                  \* a second Workflow instance of the same process, or <<>>
    self_user_id,           \* ChatflowAgent.user_id
    messages,               \* ChatflowAgent.messages
    chat_pc,                \* where ChatflowAgent.chat stands: idle, thinking, tools
    blocks,                 \* _run_agentic_loop: the tool_use blocks yet to process
    tool_results,           \* _run_agentic_loop: tool_results so far
    executed,               \* the calls execute_tool has received
    reply,                  \* what the last chat call returned or raised (length 0 or 1)
    user_agents,            \* api/server.py: user_agents, for one cache key (length 0 or 1)
    callbacks,              \* per agent made: _progress_callback, as the request whose
                            \* closure it is, or 0 for None
    threads,                \* per request: where run_agent stands, its local agent
    event_queue,            \* per request: event_queue of chat_stream
    streams,                \* per request: the events event_generator has yielded
    ended,                  \* per request: event_generator has left its loop
    dropped,                \* events _emit_progress had no callback for
    files,                  \* the workflow file of the output directory (length 0 or 1)
    file_pc,                \* building, stored, loaded, added: where the file tools stand
    file_call,              \* the file tool call in progress
    file_result,            \* the last file tool call: name, arguments, result, and
                            \* the file as it was before the call
    file_calls,             \* number of file tool calls made so far
    layout_pc,              \* simple_hierarchical_layout: called, layering, done
    layout_nodes,           \* its argument nodes
    layout_edges,           \* its argument edges
    remaining,              \* its set remaining
    in_degree,              \* its table in_degree
    layers,                 \* its list layers
    layout_result           \* what it returned (a sequence of length 0 or 1)

builder_vars == <<nodes, start_node, edges, variables, functional_node_count,
                  block_node_count, last_block_id, node_handles, block_to_func,
                  func_to_block, flow_uuid, intention_uuid>>

vars == <<nodes, start_node, edges, variables, functional_node_count,
          block_node_count, last_block_id, node_handles, block_to_func,
          func_to_block, flow_uuid, intention_uuid, uuid_count, calls, last_call,
          tool_call, pc, steps, requests, result, other, self_user_id, messages,
          chat_pc, blocks, tool_results, executed, reply, user_agents, callbacks,
          threads, event_queue, streams, ended, dropped, files, file_pc, file_call,
          file_result, file_calls, layout_pc, layout_nodes, layout_edges, remaining,
          in_degree, layers, layout_result>>

tool_vars == <<tool_call, pc, steps, requests, result>>

\* ChatflowAgent and its loop
chat_vars == <<self_user_id, messages, chat_pc, blocks, tool_results, executed, reply>>

\* /api/chat/stream: the agent cache, the agent threads and the event streams
stream_vars == <<user_agents, callbacks, threads, event_queue, streams, ended, dropped>>

\* the tools that edit a workflow file in place
file_vars == <<files, file_pc, file_call, file_result, file_calls>>

\* simple_hierarchical_layout: its arguments and locals
layout_vars == <<layout_pc, layout_nodes, layout_edges, remaining, in_degree, layers,
                 layout_result>>

\* two requests of one user
Requests == {1, 2}

\* the agent, the server and the files
service_vars == <<chat_vars, stream_vars, file_vars, layout_vars>>

\* what lies outside one builder and the tools
rest_vars == <<other, service_vars>>

\* a step of the builder or of one of its parts, made by a caller other than the
\* tools of agent/tools.py
no_tool == UNCHANGED <<tool_vars, rest_vars>>

\* ------------------------------------------------------------------ bounds

MaxCalls == 3

\* ------------------------------------------------------------ basic values

None == "None"

Lang == "en"

EmptyMap == [k \in {} |-> None]

\* dict[key] = value
Put(map, key, value) == [k \in (DOMAIN map) \cup {key} |-> IF k = key THEN value ELSE map[k]]

\* ------------------------------------------------------- utils/id_generator

uuid(n) == "u" \o ToString(n)

generate_start_node_id == "start00000000000000000000"

\* ------------------------------------------------------ utils/position_calc

FUNCTIONAL_X == 125
FUNCTIONAL_START_Y == 325
FUNCTIONAL_Y_INCREMENT == 200
BLOCK_START_X == 475
BLOCK_X_INCREMENT == 350
BLOCK_Y_OFFSET == -50
START_X == 125
START_Y == 325

get_start_position == [x |-> START_X, y |-> START_Y]

\* fc: functional_node_count before the call (the call adds one to it)
get_functional_position(fc) ==
    [x |-> FUNCTIONAL_X, y |-> FUNCTIONAL_START_Y + (fc * FUNCTIONAL_Y_INCREMENT)]

\* A variant that puts the block at the height of its functional node
get_block_position_no_offset(bc, functional_y) ==
    [x |-> BLOCK_START_X + (bc * BLOCK_X_INCREMENT), y |-> functional_y]

\* bc: block_node_count before the call (the call adds one to it)
get_block_position(bc, functional_y) ==
    [x |-> BLOCK_START_X + (bc * BLOCK_X_INCREMENT), y |-> functional_y + BLOCK_Y_OFFSET]

\* <<functional_pos, block_pos>>; both counters grow by one
get_node_pair_positions(fc, bc) ==
    LET functional_pos == get_functional_position(fc)
    IN  <<functional_pos, get_block_position(bc, functional_pos.y)>>

\* ------------------------------------------------------------ core/variables

\* VariableTracker.is_registered
is_registered(vs, variable_name) == \E i \in 1..Len(vs) : vs[i].variable_name = variable_name

\* VariableTracker.register: inserts when absent; "description or variable_name"
\* takes the name when the description is None or empty
\* A variant that takes the description of a later registration
register_overwriting(vs, variable_name, description) ==
    LET entry == [variable_name |-> variable_name,
                  description   |-> IF description = None \/ description = ""
                                    THEN variable_name ELSE description,
                  lang          |-> Lang]
    IN  IF \E i \in 1..Len(vs) : vs[i].variable_name = variable_name
        THEN [i \in 1..Len(vs) |-> IF vs[i].variable_name = variable_name
                                   THEN entry ELSE vs[i]]
        ELSE Append(vs, entry)

register(vs, variable_name, description) ==
    IF ~is_registered(vs, variable_name)
    THEN Append(vs, [variable_name |-> variable_name,
                     description   |-> IF description = None \/ description = ""
                                       THEN variable_name ELSE description,
                     lang          |-> Lang])
    ELSE vs

\* A variant that goes through the outputs from the last to the first
RECURSIVE register_outputs_reversed(_, _)
register_outputs_reversed(vs, outputs) ==
    IF outputs = <<>> THEN vs
    ELSE LET rest == register_outputs_reversed(vs, Tail(outputs))
         IN  IF "variable_assign" \in DOMAIN Head(outputs)
             THEN register(rest, Head(outputs).variable_assign, None)
             ELSE rest

\* the loop of add_code over outputs: registers output["variable_assign"] of every
\* output that has the key, whatever the value under it
RECURSIVE register_outputs(_, _)
register_outputs(vs, outputs) ==
    IF outputs = <<>> THEN vs
    ELSE register_outputs(
             IF "variable_assign" \in DOMAIN Head(outputs)
             THEN register(vs, Head(outputs).variable_assign, None)
             ELSE vs,
             Tail(outputs))

\* VariableTracker.get_all_variables
get_all_variables(vs) == vs

\* VariableTracker.count
count(vs) == Len(vs)

\* ---------------------------------------------------------------- core/edges

\* A variant that leaves the handles out of the id
edge_id_no_handles(source_block_id, target_block_id, source_handle, target_handle) ==
    "vueflow__edge-" \o source_block_id \o "-" \o target_block_id

\* the id string create_edge formats
edge_id(source_block_id, target_block_id, source_handle, target_handle) ==
    "vueflow__edge-" \o source_block_id \o source_handle \o "-"
                     \o target_block_id \o target_handle

create_edge(source_block_id, target_block_id, source_handle, target_handle) ==
    LET sh == IF source_handle = None THEN source_block_id ELSE source_handle
        th == IF target_handle = None THEN target_block_id ELSE target_handle
    IN  [id           |-> edge_id(source_block_id, target_block_id, sh, th),
         type         |-> "custom",
         source       |-> source_block_id,
         target       |-> target_block_id,
         sourceHandle |-> sh,
         targetHandle |-> th]

\* A variant that keeps one edge per id
add_edge_dedup(es, source_block_id, target_block_id, source_handle, target_handle) ==
    LET edge == create_edge(source_block_id, target_block_id, source_handle, target_handle)
    IN  IF \E i \in 1..Len(es) : es[i].id = edge.id THEN es ELSE Append(es, edge)

\* EdgeManager.add_edge: the edge list after the call; the new edge is its last element
add_edge(es, source_block_id, target_block_id, source_handle, target_handle) ==
    Append(es, create_edge(source_block_id, target_block_id, source_handle, target_handle))

\* ------------------------------------------------ generators/block_generator

create_block_node(block_id, include_node_ids, label, position_x, position_y) ==
    [id       |-> block_id,
     type     |-> "block",
     position |-> [x |-> position_x, y |-> position_y],
     data     |-> [label |-> label, include_node_ids |-> include_node_ids]]

\* A variant that ignores the block_id it is given and draws its own
create_block_for_functional_node_own_id(functional_node_id, label, block_position, block_id, n) ==
    create_block_node(uuid(n + 1), <<functional_node_id>>, label,
                      block_position.x, block_position.y)

\* n: uuid4() values drawn before the call; one is drawn only when block_id is None
create_block_for_functional_node(functional_node_id, label, block_position, block_id, n) ==
    create_block_node(IF block_id = None THEN uuid(n + 1) ELSE block_id,
                      <<functional_node_id>>, label,
                      block_position.x, block_position.y)

\* ------------------------------------------------- generators/node_generator
\* Every constructor is called by the builder with node_id = None and a block_id;
\* n is the number of uuid4() values drawn before the call, and the values the
\* constructor draws are uuid(n + 1), uuid(n + 2), ... in the order of the code.

\* A variant that gives the entry node a drawn id
create_start_node_drawn_id(position_x, position_y, n) ==
    [id       |-> uuid(n + 1),
     type     |-> "start",
     position |-> [x |-> position_x, y |-> position_y],
     data     |-> [label |-> "Start", sourceHandle |-> uuid(n + 1)]]

create_start_node(position_x, position_y, n) ==
    [id       |-> generate_start_node_id,
     type     |-> "start",
     position |-> [x |-> position_x, y |-> position_y],
     data     |-> [label |-> "Start", sourceHandle |-> uuid(n + 1)]]

node_dict(type, node_id, source_handle, block_id, position_x, position_y, config) ==
    [id       |-> node_id,
     type     |-> type,
     position |-> [x |-> position_x, y |-> position_y],
     data     |-> [sourceHandle |-> source_handle],
     blockId  |-> block_id,
     hidden   |-> TRUE,
     config   |-> config]

create_text_reply_node(text, title, block_id, position_x, position_y, n) ==
    node_dict("textReply", uuid(n + 1), uuid(n + 2), block_id, position_x, position_y,
                    [plain_text |-> <<[text |-> text, id |-> uuid(n + 3)]>>,
                     title      |-> title])

create_capture_user_reply_node(variable_name, title, block_id, position_x, position_y, n) ==
    node_dict("captureUserReply", uuid(n + 1), uuid(n + 2), block_id,
                    position_x, position_y,
                    [variable_assign |-> variable_name, title |-> title])

\* the number of branches among the first i that get a generated condition_id
missing_ids(if_else_conditions, i) ==
    Cardinality({j \in 1..i : if_else_conditions[j].condition_id = None})

\* A variant that gives every branch a generated id, supplied ids included
with_condition_ids_all_generated(if_else_conditions, first) ==
    [i \in 1..Len(if_else_conditions) |->
        [if_else_conditions[i] EXCEPT
            !.condition_id = uuid(first + missing_ids(if_else_conditions, i))]]

\* the branch list after the loop that fills in the missing condition_ids; the
\* first generated id is uuid(first + 1)
with_condition_ids(if_else_conditions, first) ==
    [i \in 1..Len(if_else_conditions) |->
        IF if_else_conditions[i].condition_id = None
        THEN [if_else_conditions[i] EXCEPT
                 !.condition_id = uuid(first + missing_ids(if_else_conditions, i))]
        ELSE if_else_conditions[i]]

create_condition_node(if_else_conditions, title, block_id, position_x, position_y, n) ==
    node_dict("condition", uuid(n + 1), uuid(n + 2), block_id, position_x, position_y,
                    [if_else_conditions |-> with_condition_ids(if_else_conditions, n + 2),
                     title              |-> title])

create_code_node(code, outputs, args, title, block_id, position_x, position_y, n) ==
    node_dict("code", uuid(n + 1), uuid(n + 2), block_id, position_x, position_y,
                    [title |-> title, code |-> code, outputs |-> outputs, args |-> args])

create_llm_variable_assignment_node(prompt_template, variable_assign, title, block_id, position_x, position_y, n) ==
    node_dict("llmVariableAssignment", uuid(n + 1), uuid(n + 2), block_id,
                    position_x, position_y,
                    [title           |-> title,
                     prompt_template |-> prompt_template,
                     variable_assign |-> variable_assign])

\* llm_config is None in every call of the builder, so the default configuration
\* is built and draws two more ids
create_llm_reply_node(prompt_template, title, block_id, position_x, position_y, n) ==
    node_dict("llMReply", uuid(n + 1), uuid(n + 2), block_id, position_x, position_y,
                    [title           |-> title,
                     prompt_template |-> prompt_template,
                     llm_config      |-> [main_condition_id  |-> uuid(n + 3),
                                          other_condition_id |-> uuid(n + 4)]])

\* simple_hierarchical_layout called with nodes_in and edges_in
layout_init(nodes_in, edges_in) ==
    /\ layout_pc = "called"
    /\ layout_nodes = nodes_in
    /\ layout_edges = edges_in
    /\ remaining = {}
    /\ in_degree = <<>>
    /\ layers = <<>>
    /\ layout_result = <<>>

\* ChatflowAgent.__init__, for a user other than the default one, and the server
\* before its first request
service_init ==
    /\ self_user_id = "alice"
    /\ messages = <<>>
    /\ chat_pc = "idle"
    /\ blocks = <<>>
    /\ tool_results = <<>>
    /\ executed = <<>>
    /\ reply = <<>>
    /\ user_agents = <<>>
    /\ callbacks = <<>>
    /\ threads = [r \in Requests |-> [pc |-> "none", agent |-> 0, emitted |-> 0]]
    /\ event_queue = [r \in Requests |-> <<>>]
    /\ streams = [r \in Requests |-> <<>>]
    /\ ended = [r \in Requests |-> FALSE]
    /\ dropped = <<>>
    /\ files = <<>>
    /\ file_pc = "building"
    /\ file_call = [op |-> None]
    /\ file_result = [op |-> None]
    /\ file_calls = 0

\* ------------------------------------------------------------- core/workflow

\* Workflow.__init__, with nothing else in the process started
workflow_init ==
    /\ nodes = <<>>
    /\ start_node = <<>>
    /\ edges = <<>>
    /\ variables = <<>>
    /\ functional_node_count = 0
    /\ block_node_count = 0
    /\ last_block_id = None
    /\ node_handles = EmptyMap
    /\ block_to_func = EmptyMap
    /\ func_to_block = EmptyMap
    /\ flow_uuid = uuid(1)
    /\ intention_uuid = uuid(2)
    /\ uuid_count = 2
    /\ calls = 0
    /\ last_call = [op |-> "__init__", args |-> <<>>, ok |-> TRUE, ret |-> None]
    /\ tool_call = [op |-> None]
    /\ pc = "idle"
    /\ steps = <<>>
    /\ requests = <<>>
    /\ result = <<>>
    /\ other = <<>>
    /\ service_init

\* a fresh builder, no tool call, no agent call, no request, no file; no layout
\* to compute
Init == workflow_init /\ layout_init(<<>>, <<>>)

\* what a call leaves in last_call
returned(op, args, ret) == [op |-> op, args |-> args, ok |-> TRUE, ret |-> ret]
raised(op, args, error) == [op |-> op, args |-> args, ok |-> FALSE, ret |-> error]

\* connect_nodes, first half: the handles it passes on to the edge manager
resolve_source_handle(handles, source_block_id, source_handle) ==
    IF source_handle = None /\ source_block_id \in DOMAIN handles
    THEN handles[source_block_id]
    ELSE source_handle

\* A variant that never looks the target up in block_to_func
resolve_target_handle_raw(b2f, target_block_id, target_handle) ==
    IF target_handle = None THEN target_block_id ELSE target_handle

resolve_target_handle(b2f, target_block_id, target_handle) ==
    IF target_handle = None
    THEN IF target_block_id \in DOMAIN b2f THEN b2f[target_block_id] ELSE target_block_id
    ELSE target_handle

\* connect_nodes, second half: the edge list after the call, given the handle map
\* and the block map the call reads; the edge it returns is the last element
connect_nodes_edges(es, handles, b2f, source_block_id, target_block_id, source_handle, target_handle) ==
    add_edge(es, source_block_id, target_block_id,
             resolve_source_handle(handles, source_block_id, source_handle),
             resolve_target_handle(b2f, target_block_id, target_handle))

Last(seq) == seq[Len(seq)]

\* A variant without the check for an existing entry node
add_start_node_unguarded ==
    LET position == get_start_position
        node     == create_start_node(position.x, position.y, uuid_count)
    IN  /\ start_node' = <<node>>
        /\ nodes' = Append(nodes, node)
        /\ last_block_id' = node.id
        /\ node_handles' = Put(node_handles, node.id, node.data.sourceHandle)
        /\ uuid_count' = uuid_count + 1
        /\ calls' = calls + 1
        /\ last_call' = returned("add_start_node", <<>>, node.id)
        /\ UNCHANGED <<edges, variables, functional_node_count, block_node_count,
                       block_to_func, func_to_block, flow_uuid, intention_uuid>>

\* A variant that moves the cursor to the entry id before it checks
add_start_node_cursor_first ==
    IF start_node # <<>>
    THEN /\ last_block_id' = generate_start_node_id
         /\ last_call' = raised("add_start_node", <<>>, "ValueError")
         /\ calls' = calls + 1
         /\ UNCHANGED <<nodes, start_node, edges, variables, functional_node_count,
                        block_node_count, node_handles, block_to_func, func_to_block,
                        flow_uuid, intention_uuid, uuid_count>>
    ELSE add_start_node_unguarded

add_start_node ==
    IF start_node # <<>>
    THEN /\ last_call' = raised("add_start_node", <<>>, "ValueError")
         /\ calls' = calls + 1
         /\ UNCHANGED <<builder_vars, uuid_count>>
    ELSE LET position == get_start_position
             node     == create_start_node(position.x, position.y, uuid_count)
         IN  /\ start_node' = <<node>>
             /\ nodes' = Append(nodes, node)
             /\ last_block_id' = node.id
             /\ node_handles' = Put(node_handles, node.id, node.data.sourceHandle)
             /\ uuid_count' = uuid_count + 1
             /\ calls' = calls + 1
             /\ last_call' = returned("add_start_node", <<>>, node.id)
             /\ UNCHANGED <<edges, variables, functional_node_count, block_node_count,
                            block_to_func, func_to_block, flow_uuid, intention_uuid>>

\* A variant that writes the second map with key and value exchanged
add_pair_swapped_map(functional_node, block_node, block_id, handles, auto_connect) ==
    /\ nodes' = nodes \o <<functional_node, block_node>>
    /\ node_handles' = handles
    /\ block_to_func' = Put(block_to_func, block_id, functional_node.id)
    /\ func_to_block' = Put(func_to_block, block_id, functional_node.id)
    /\ edges' = IF auto_connect /\ last_block_id # None
                THEN connect_nodes_edges(edges, handles, block_to_func',
                                         last_block_id, block_id, None, None)
                ELSE edges
    /\ last_block_id' = block_id
    /\ functional_node_count' = functional_node_count + 1
    /\ block_node_count' = block_node_count + 1
    /\ calls' = calls + 1
    /\ UNCHANGED <<start_node, flow_uuid, intention_uuid>>

\* A variant that moves the cursor before it connects
add_pair_cursor_first(functional_node, block_node, block_id, handles, auto_connect) ==
    /\ nodes' = nodes \o <<functional_node, block_node>>
    /\ node_handles' = handles
    /\ block_to_func' = Put(block_to_func, block_id, functional_node.id)
    /\ func_to_block' = Put(func_to_block, functional_node.id, block_id)
    /\ last_block_id' = block_id
    /\ edges' = IF auto_connect
                THEN connect_nodes_edges(edges, handles, block_to_func',
                                         last_block_id', block_id, None, None)
                ELSE edges
    /\ functional_node_count' = functional_node_count + 1
    /\ block_node_count' = block_node_count + 1
    /\ calls' = calls + 1
    /\ UNCHANGED <<start_node, flow_uuid, intention_uuid>>

\* A variant that moves the cursor only when it connects
add_pair_cursor_when_connected(functional_node, block_node, block_id, handles, auto_connect) ==
    /\ nodes' = nodes \o <<functional_node, block_node>>
    /\ node_handles' = handles
    /\ block_to_func' = Put(block_to_func, block_id, functional_node.id)
    /\ func_to_block' = Put(func_to_block, functional_node.id, block_id)
    /\ edges' = IF auto_connect /\ last_block_id # None
                THEN connect_nodes_edges(edges, handles, block_to_func',
                                         last_block_id, block_id, None, None)
                ELSE edges
    /\ last_block_id' = IF auto_connect THEN block_id ELSE last_block_id
    /\ functional_node_count' = functional_node_count + 1
    /\ block_node_count' = block_node_count + 1
    /\ calls' = calls + 1
    /\ UNCHANGED <<start_node, flow_uuid, intention_uuid>>

\* The statements every add method runs once its two nodes are built: append both,
\* record the maps, connect from the cursor when asked to, move the cursor.
\* handles is node_handles as the method leaves it.
add_pair(functional_node, block_node, block_id, handles, auto_connect) ==
    /\ nodes' = nodes \o <<functional_node, block_node>>
    /\ node_handles' = handles
    /\ block_to_func' = Put(block_to_func, block_id, functional_node.id)
    /\ func_to_block' = Put(func_to_block, functional_node.id, block_id)
    /\ edges' = IF auto_connect /\ last_block_id # None
                THEN connect_nodes_edges(edges, handles, block_to_func',
                                         last_block_id, block_id, None, None)
                ELSE edges
    /\ last_block_id' = block_id
    /\ functional_node_count' = functional_node_count + 1
    /\ block_node_count' = block_node_count + 1
    /\ calls' = calls + 1
    /\ UNCHANGED <<start_node, flow_uuid, intention_uuid>>

add_text_reply(text, title, auto_connect) ==
    LET pos      == get_node_pair_positions(functional_node_count, block_node_count)
        block_id == uuid(uuid_count + 1)
        f        == create_text_reply_node(text, title, block_id, pos[1].x, pos[1].y,
                                           uuid_count + 1)
        b        == create_block_for_functional_node(f.id, title, pos[2], block_id,
                                                     uuid_count + 4)
    IN  /\ add_pair(f, b, block_id, Put(node_handles, block_id, f.data.sourceHandle),
                    auto_connect)
        /\ UNCHANGED variables
        /\ uuid_count' = uuid_count + 4
        /\ last_call' = returned("add_text_reply",
                                 [text |-> text, auto_connect |-> auto_connect], block_id)

add_capture_user_reply(variable_name, description, title, auto_connect) ==
    LET pos      == get_node_pair_positions(functional_node_count, block_node_count)
        block_id == uuid(uuid_count + 1)
        f        == create_capture_user_reply_node(variable_name, title, block_id,
                                                   pos[1].x, pos[1].y, uuid_count + 1)
        b        == create_block_for_functional_node(f.id, title, pos[2], block_id,
                                                     uuid_count + 3)
    IN  /\ variables' = register(variables, variable_name, description)
        /\ add_pair(f, b, block_id, Put(node_handles, block_id, f.data.sourceHandle),
                    auto_connect)
        /\ uuid_count' = uuid_count + 3
        /\ last_call' = returned("add_capture_user_reply",
                                 [variable_name |-> variable_name,
                                  description   |-> description,
                                  auto_connect  |-> auto_connect], block_id)

\* add_condition stores no entry in node_handles
add_condition(if_else_conditions, title, auto_connect) ==
    LET pos      == get_node_pair_positions(functional_node_count, block_node_count)
        block_id == uuid(uuid_count + 1)
        f        == create_condition_node(if_else_conditions, title, block_id,
                                          pos[1].x, pos[1].y, uuid_count + 1)
        drawn    == 3 + missing_ids(if_else_conditions, Len(if_else_conditions))
        b        == create_block_for_functional_node(f.id, title, pos[2], block_id,
                                                     uuid_count + drawn)
        condition_ids == [i \in 1..Len(f.config.if_else_conditions) |->
                             f.config.if_else_conditions[i].condition_id]
    IN  /\ add_pair(f, b, block_id, node_handles, auto_connect)
        /\ UNCHANGED variables
        /\ uuid_count' = uuid_count + drawn
        /\ last_call' = returned("add_condition",
                                 [if_else_conditions |-> if_else_conditions,
                                  auto_connect       |-> auto_connect,
                                  \* the caller's list object is the one the node
                                  \* keeps: its records as the loop left them
                                  after_call         |-> f.config.if_else_conditions],
                                 <<block_id, condition_ids>>)

add_code(code, outputs, args, title, auto_connect) ==
    LET pos      == get_node_pair_positions(functional_node_count, block_node_count)
        block_id == uuid(uuid_count + 1)
        f        == create_code_node(code, outputs, args, title, block_id,
                                     pos[1].x, pos[1].y, uuid_count + 1)
        b        == create_block_for_functional_node(f.id, title, pos[2], block_id,
                                                     uuid_count + 3)
    IN  /\ variables' = register_outputs(variables, outputs)
        /\ add_pair(f, b, block_id, Put(node_handles, block_id, f.data.sourceHandle),
                    auto_connect)
        /\ uuid_count' = uuid_count + 3
        /\ last_call' = returned("add_code",
                                 [outputs |-> outputs, auto_connect |-> auto_connect],
                                 block_id)

add_llm_variable_assignment(prompt_template, variable_assign, title, auto_connect) ==
    LET pos      == get_node_pair_positions(functional_node_count, block_node_count)
        block_id == uuid(uuid_count + 1)
        f        == create_llm_variable_assignment_node(prompt_template, variable_assign,
                                                        title, block_id,
                                                        pos[1].x, pos[1].y, uuid_count + 1)
        b        == create_block_for_functional_node(f.id, title, pos[2], block_id,
                                                     uuid_count + 3)
    IN  /\ variables' = register(variables, variable_assign, None)
        /\ add_pair(f, b, block_id, Put(node_handles, block_id, f.data.sourceHandle),
                    auto_connect)
        /\ uuid_count' = uuid_count + 3
        /\ last_call' = returned("add_llm_variable_assignment",
                                 [variable_assign |-> variable_assign,
                                  auto_connect    |-> auto_connect], block_id)

add_llm_reply(prompt_template, title, auto_connect) ==
    LET pos      == get_node_pair_positions(functional_node_count, block_node_count)
        block_id == uuid(uuid_count + 1)
        f        == create_llm_reply_node(prompt_template, title, block_id,
                                          pos[1].x, pos[1].y, uuid_count + 1)
        b        == create_block_for_functional_node(f.id, title, pos[2], block_id,
                                                     uuid_count + 5)
    IN  /\ add_pair(f, b, block_id, Put(node_handles, block_id, f.data.sourceHandle),
                    auto_connect)
        /\ UNCHANGED variables
        /\ uuid_count' = uuid_count + 5
        /\ last_call' = returned("add_llm_reply",
                                 [prompt_template |-> prompt_template,
                                  auto_connect    |-> auto_connect], block_id)

\* A variant that refuses an edge closing a loop (onto its own source, or back
\* along an edge that exists)
connect_acyclic(op, args, source_block_id, target_block_id, source_handle, target_handle) ==
    /\ IF \/ source_block_id = target_block_id
          \/ \E i \in 1..Len(edges) : /\ edges[i].source = target_block_id
                                       /\ edges[i].target = source_block_id
       THEN /\ edges' = edges
            /\ last_call' = raised(op, args, "ValueError")
       ELSE /\ edges' = connect_nodes_edges(edges, node_handles, block_to_func,
                                            source_block_id, target_block_id,
                                            source_handle, target_handle)
            /\ last_call' = returned(op, args, Last(edges'))
    /\ calls' = calls + 1
    /\ UNCHANGED <<nodes, start_node, variables, functional_node_count,
                   block_node_count, last_block_id, node_handles, block_to_func,
                   func_to_block, flow_uuid, intention_uuid, uuid_count>>

\* the body of connect_nodes: one edge appended, nothing else written
connect(op, args, source_block_id, target_block_id, source_handle, target_handle) ==
    /\ edges' = connect_nodes_edges(edges, node_handles, block_to_func, source_block_id,
                                    target_block_id, source_handle, target_handle)
    /\ calls' = calls + 1
    /\ last_call' = returned(op, args, Last(edges'))
    /\ UNCHANGED <<nodes, start_node, variables, functional_node_count,
                   block_node_count, last_block_id, node_handles, block_to_func,
                   func_to_block, flow_uuid, intention_uuid, uuid_count>>

connect_nodes(source_block_id, target_block_id, source_handle, target_handle) ==
    connect("connect_nodes",
            [source_block_id |-> source_block_id, target_block_id |-> target_block_id,
             source_handle   |-> source_handle,   target_handle   |-> target_handle],
            source_block_id, target_block_id, source_handle, target_handle)

\* A variant that does not pass the branch id on
connect_condition_branch_no_handle(condition_block_id, condition_id, target_block_id) ==
    connect("connect_condition_branch",
            [condition_block_id |-> condition_block_id, condition_id |-> condition_id,
             target_block_id    |-> target_block_id],
            condition_block_id, target_block_id, None, None)

\* A variant that passes the target id on as the target handle
connect_condition_branch_raw_target(condition_block_id, condition_id, target_block_id) ==
    connect("connect_condition_branch",
            [condition_block_id |-> condition_block_id, condition_id |-> condition_id,
             target_block_id    |-> target_block_id],
            condition_block_id, target_block_id, condition_id, target_block_id)

connect_condition_branch(condition_block_id, condition_id, target_block_id) ==
    connect("connect_condition_branch",
            [condition_block_id |-> condition_block_id, condition_id |-> condition_id,
             target_block_id    |-> target_block_id],
            condition_block_id, target_block_id, condition_id, None)

\* the document to_json returns
document ==
    [flow_uuid       |-> flow_uuid,
     start_node_uuid |-> generate_start_node_id,
     intention_uuid  |-> intention_uuid,
     nodes           |-> nodes,
     edges           |-> edges,
     lang            |-> Lang,
     variables       |-> get_all_variables(variables)]

\* A variant that draws a new flow_uuid for every document
to_json_regenerating ==
    /\ flow_uuid' = uuid(uuid_count + 1)
    /\ uuid_count' = uuid_count + 1
    /\ last_call' = returned("to_json", <<>>, [document EXCEPT !.flow_uuid = flow_uuid'])
    /\ calls' = calls + 1
    /\ UNCHANGED <<nodes, start_node, edges, variables, functional_node_count,
                   block_node_count, last_block_id, node_handles, block_to_func,
                   func_to_block, intention_uuid>>

to_json ==
    /\ last_call' = returned("to_json", <<>>, document)
    /\ calls' = calls + 1
    /\ UNCHANGED <<builder_vars, uuid_count>>

\* ------------------------------------------------- the callers' arguments

Texts == {"Hi"}

\* a captured variable without a description and one with
Captures == {<<"name", None>>, <<"age", "user name">>}

\* the variable an llm assignment writes
AssignNames == {"name"}

Branch(condition_id, condition_name, logical_operator, conditions) ==
    [condition_id     |-> condition_id,
     condition_name   |-> condition_name,
     logical_operator |-> logical_operator,
     conditions       |-> conditions,
     condition_action |-> <<>>]

Adult == <<[condition_type |-> "variable", comparison_operator |-> ">=",
            condition_value |-> "18", condition_variable |-> "age"]>>

\* branch lists: empty; ids all missing; the same id supplied twice and one missing
BranchLists ==
    { <<>>,
      <<Branch(None, "adult", "and", Adult), Branch(None, "Other", "other", <<>>)>>,
      <<Branch("c1", "adult", "and", Adult), Branch("c1", "minor", "and", Adult),
        Branch(None, "Other", "other", <<>>)>> }

\* output lists of a code node: none; an output bound to a variable, one without
\* the key variable_assign and one with None under it
OutputLists ==
    { <<>>,
      <<[name |-> "r", type |-> "string", variable_assign |-> "age"],
        [name |-> "s", type |-> "string"],
        [name |-> "t", type |-> "string", variable_assign |-> None]>> }

\* ids a caller has at hand: the wrappers added so far and the entry id (which
\* names no node until add_start_node has run)
KnownIds == (DOMAIN block_to_func) \cup {generate_start_node_id}

\* the functional node a wrapper id wraps, as a sequence of length 0 or 1
wrapped(block_id) ==
    IF block_id \in DOMAIN block_to_func
    THEN SelectSeq(nodes, LAMBDA nd : nd.id = block_to_func[block_id])
    ELSE <<>>

\* the branch ids of the condition node behind a wrapper id (empty for any other id)
branch_ids(block_id) ==
    LET w == wrapped(block_id)
    IN  IF w # <<>> /\ w[1].type = "condition"
        THEN {w[1].config.if_else_conditions[i].condition_id :
                  i \in 1..Len(w[1].config.if_else_conditions)}
        ELSE {}

\* handles a caller may pass for a source: none, a branch id of it, or one that
\* exists nowhere
SourceHandles(source_block_id) == {None, "x"} \cup branch_ids(source_block_id)

\* handles a caller may pass for a target: none, or one of the caller's own
TargetHandles == {None, "y"}

\* the handle pairs of a connect_nodes call: both left out, or one of them given
HandlePairs(source_block_id) ==
    {h \in SourceHandles(source_block_id) \X TargetHandles : h[1] = None \/ h[2] = None}

\* at most MaxCalls calls are made
MayCall == calls < MaxCalls

Next ==
    \/ MayCall /\ no_tool /\ add_start_node
    \/ \E text \in Texts, auto_connect \in BOOLEAN :
           MayCall /\ no_tool /\ add_text_reply(text, "Response", auto_connect)
    \/ \E capture \in Captures, auto_connect \in BOOLEAN :
           MayCall /\ no_tool /\ add_capture_user_reply(capture[1], capture[2], "Capture",
                                             auto_connect)
    \/ \E if_else_conditions \in BranchLists, auto_connect \in BOOLEAN :
           MayCall /\ no_tool /\ add_condition(if_else_conditions, "Condition", auto_connect)
    \/ \E outputs \in OutputLists, auto_connect \in BOOLEAN :
           MayCall /\ no_tool /\ add_code("pass", outputs, <<>>, "Code", auto_connect)
    \/ \E variable_assign \in AssignNames, auto_connect \in BOOLEAN :
           MayCall /\ no_tool /\ add_llm_variable_assignment("extract", variable_assign,
                                                  "LLM Assignment", auto_connect)
    \/ \E auto_connect \in BOOLEAN :
           MayCall /\ no_tool /\ add_llm_reply("reply", "LLM Reply", auto_connect)
    \/ \E source_block_id \in KnownIds, target_block_id \in KnownIds :
           \E handles \in HandlePairs(source_block_id) :
               MayCall /\ no_tool /\ connect_nodes(source_block_id, target_block_id, handles[1],
                                        handles[2])
    \/ \E condition_block_id \in KnownIds, target_block_id \in KnownIds :
           \E condition_id \in SourceHandles(condition_block_id) \ {None} :
               MayCall /\ no_tool /\ connect_condition_branch(condition_block_id, condition_id,
                                                   target_block_id)
    \/ MayCall /\ no_tool /\ to_json

Spec == Init /\ [][Next]_vars

\* The linear build: add_start_node, then functional adds with auto_connect on
MaxChain == 3

\* at most MaxChain functional adds are made, each after add_start_node
MayAdd == start_node # <<>> /\ functional_node_count < MaxChain

ChainNext ==
    \/ nodes = <<>> /\ no_tool /\ add_start_node
    \/ \E text \in Texts : MayAdd /\ no_tool /\ add_text_reply(text, "Response", TRUE)
    \/ \E capture \in Captures :
           MayAdd /\ no_tool /\ add_capture_user_reply(capture[1], capture[2], "Capture", TRUE)
    \/ \E if_else_conditions \in BranchLists :
           MayAdd /\ no_tool /\ add_condition(if_else_conditions, "Condition", TRUE)
    \/ \E outputs \in OutputLists :
           MayAdd /\ no_tool /\ add_code("pass", outputs, <<>>, "Code", TRUE)
    \/ \E variable_assign \in AssignNames :
           MayAdd /\ no_tool /\ add_llm_variable_assignment("extract", variable_assign,
                                                 "LLM Assignment", TRUE)
    \/ MayAdd /\ no_tool /\ add_llm_reply("reply", "LLM Reply", TRUE)

ChainSpec == Init /\ [][ChainNext]_vars

\* ------------------------------------------------------------ the claims

FunctionalAdds == {"add_text_reply", "add_capture_user_reply", "add_condition",
                   "add_code", "add_llm_variable_assignment", "add_llm_reply"}

StartIndexes == {i \in 1..Len(nodes) : nodes[i].type = "start"}

BlockIndexes == {i \in 1..Len(nodes) : nodes[i].type = "block"}

FunctionalIndexes == {i \in 1..Len(nodes) : nodes[i].type \notin {"start", "block"}}

\* C1: once add_start_node has succeeded, the node list holds exactly one node of
\* type start, whatever other calls (further add_start_node attempts included)
\* were made; before it has, the list holds none.
C1_ExactlyOneStart ==
    /\ start_node # <<>> => Cardinality(StartIndexes) = 1
    /\ start_node = <<>> => StartIndexes = {}

C1_Witness ==
    /\ start_node # <<>>
    /\ last_call.op = "add_start_node"
    /\ ~last_call.ok
    /\ Len(nodes) >= 3

\* C2: add_start_node called when an entry node exists fails with the duplicate
\* entry error and leaves nodes, start_node, edges, variables, both position
\* counters, the cursor, the handle map and both maps as they were.
C2_DuplicateEntryFails ==
    [][(last_call'.op = "add_start_node" /\ start_node # <<>>)
          => /\ ~last_call'.ok
             /\ last_call'.ret = "ValueError"
             /\ UNCHANGED builder_vars]_vars

C2_Witness ==
    /\ last_call.op = "add_start_node"
    /\ ~last_call.ok
    /\ last_block_id # generate_start_node_id
    /\ Len(edges) >= 1

MapsInverse ==
    /\ \A w \in DOMAIN block_to_func :
           /\ block_to_func[w] \in DOMAIN func_to_block
           /\ func_to_block[block_to_func[w]] = w
    /\ \A f \in DOMAIN func_to_block :
           /\ func_to_block[f] \in DOMAIN block_to_func
           /\ block_to_func[func_to_block[f]] = f

\* C3: every functional add appends exactly two nodes, the functional node and then
\* its wrapper, and after every call the two maps are inverses of each other.
C3_TwoNodesAndInverseMaps ==
    [][/\ last_call'.op \in FunctionalAdds
          => /\ Len(nodes') = Len(nodes) + 2
             /\ SubSeq(nodes', 1, Len(nodes)) = nodes
             /\ nodes'[Len(nodes) + 1].type \notin {"start", "block"}
             /\ nodes'[Len(nodes) + 2].type = "block"
             /\ nodes'[Len(nodes) + 2].data.include_node_ids
                    = <<nodes'[Len(nodes) + 1].id>>
             /\ block_to_func'[nodes'[Len(nodes) + 2].id] = nodes'[Len(nodes) + 1].id
       /\ MapsInverse']_vars

C3_Witness ==
    /\ last_call.op \in FunctionalAdds
    /\ Len(nodes) >= 4
    /\ Cardinality(DOMAIN block_to_func) >= 2
    /\ Cardinality(DOMAIN func_to_block) >= 2

\* C4: every functional node has exactly one wrapper, a block whose include_node_ids
\* is that node alone and whose id is the node's blockId; every block wraps exactly
\* one functional node of the list.
C4_OneWrapperEach ==
    /\ \A i \in FunctionalIndexes :
           /\ Cardinality({j \in BlockIndexes :
                               nodes[j].data.include_node_ids = <<nodes[i].id>>}) = 1
           /\ \A j \in BlockIndexes :
                  nodes[j].data.include_node_ids = <<nodes[i].id>>
                      => nodes[i].blockId = nodes[j].id
    /\ \A j \in BlockIndexes :
           /\ Len(nodes[j].data.include_node_ids) = 1
           /\ Cardinality({i \in FunctionalIndexes :
                               nodes[i].id = nodes[j].data.include_node_ids[1]}) = 1

C4_Witness ==
    /\ Cardinality(FunctionalIndexes) >= 2
    /\ Cardinality(BlockIndexes) >= 2
    /\ StartIndexes # {}

\* the data.sourceHandle of the node a cursor or source id stands for: the entry
\* node, or the functional node behind a wrapper (None when the id names neither)
default_exit_anchor(id) ==
    IF id = generate_start_node_id /\ start_node # <<>>
    THEN start_node[1].data.sourceHandle
    ELSE IF wrapped(id) # <<>> THEN wrapped(id)[1].data.sourceHandle ELSE None

\* C5: a functional add with auto_connect on and a cursor appends exactly one edge,
\* from the cursor to the new wrapper, whose sourceHandle is the data.sourceHandle
\* of the node added before and whose targetHandle is the new functional node's id;
\* with auto_connect off or without a cursor it appends none.
C5_AutoConnectEdge ==
    [][last_call'.op \in FunctionalAdds
          => IF last_call'.args.auto_connect /\ last_block_id # None
             THEN /\ Len(edges') = Len(edges) + 1
                  /\ SubSeq(edges', 1, Len(edges)) = edges
                  /\ Last(edges').source = last_block_id
                  /\ Last(edges').target = last_block_id'
                  /\ Last(edges').sourceHandle = default_exit_anchor(last_block_id)
                  /\ Last(edges').targetHandle = block_to_func'[last_block_id']
             ELSE edges' = edges]_vars

\* the variable names the functional nodes of the list introduce
IntroducedNames ==
    {nodes[i].config.variable_assign :
         i \in {k \in FunctionalIndexes :
                    nodes[k].type \in {"captureUserReply", "llmVariableAssignment"}}}
    \cup UNION {{nodes[i].config.outputs[k].variable_assign :
                     k \in {o \in 1..Len(nodes[i].config.outputs) :
                               "variable_assign" \in DOMAIN nodes[i].config.outputs[o]}} :
                i \in {k \in FunctionalIndexes : nodes[k].type = "code"}}

\* C6: after add_start_node and n functional adds with auto_connect on there are
\* 1 + 2n nodes and n edges, the i-th edge runs from what step i-1 added (the entry
\* for i = 1) to the wrapper step i added, and the registry holds exactly the
\* distinct names those adds introduced.
C6_Chain ==
    calls >= 1 =>
        LET n == calls - 1
        IN  /\ Len(nodes) = 1 + 2 * n
            /\ nodes[1].type = "start"
            /\ Len(edges) = n
            /\ \A i \in 1..n :
                   /\ nodes[2 * i].type \notin {"start", "block"}
                   /\ nodes[2 * i + 1].type = "block"
                   /\ edges[i].source = nodes[2 * i - 1].id
                   /\ edges[i].target = nodes[2 * i + 1].id
            /\ {variables[k].variable_name : k \in 1..Len(variables)} = IntroducedNames
            /\ Len(variables) = Cardinality(IntroducedNames)

C6_Witness ==
    /\ calls = 4
    /\ Len(variables) = 2
    /\ \E i \in FunctionalIndexes : nodes[i].type = "condition"

\* the handles that exist on the node a source id stands for
real_source_handles(id) == ({default_exit_anchor(id)} \ {None}) \cup branch_ids(id)

\* C7: every edge's sourceHandle is the data.sourceHandle of its source node or a
\* branch id of its source condition node.
C7_SourceHandlesReal ==
    \A i \in 1..Len(edges) : edges[i].sourceHandle \in real_source_handles(edges[i].source)

\* C8 as claimed: no two edges of the edge table have the same id.
C8_EdgeIdsUnique ==
    \A i, j \in 1..Len(edges) : i # j => edges[i].id # edges[j].id

GeneratedIds == {generate_start_node_id} \cup {uuid(k) : k \in 1..uuid_count}

Quad(edge) == <<edge.source, edge.target, edge.sourceHandle, edge.targetHandle>>

Generated(edge) == \A k \in 1..4 : Quad(edge)[k] \in GeneratedIds

\* C8 as amended: two edges whose source, target and handles are all ids the
\* builder generated (the entry id, uuids) have the same id only when they agree
\* on source, target, sourceHandle and targetHandle.
C8_DistinctEdgesDistinctIds ==
    \A i, j \in 1..Len(edges) :
        (edges[i].id = edges[j].id /\ Generated(edges[i]) /\ Generated(edges[j]))
            => Quad(edges[i]) = Quad(edges[j])

C8_Witness ==
    \E i, j \in 1..Len(edges) :
        /\ Generated(edges[i]) /\ Generated(edges[j])
        /\ edges[i].source = edges[j].source
        /\ edges[i].target = edges[j].target
        /\ edges[i].sourceHandle # edges[j].sourceHandle

\* C9: the id of every edge is the one string built from its source, target and
\* handles, and a connect_nodes call that repeats the arguments of the call before
\* it appends a second edge with the id of the first, after it, both kept.
C9_RepeatedConnect ==
    [][/\ \A i \in 1..Len(edges') :
              edges'[i].id = edge_id(edges'[i].source, edges'[i].target,
                                     edges'[i].sourceHandle, edges'[i].targetHandle)
       /\ (/\ last_call.op = "connect_nodes"
           /\ last_call'.op = "connect_nodes"
           /\ last_call'.args = last_call.args)
          => /\ Len(edges') = Len(edges) + 1
             /\ SubSeq(edges', 1, Len(edges)) = edges
             /\ Last(edges) = last_call.ret
             /\ Last(edges') = last_call'.ret
             /\ Last(edges').id = Last(edges).id]_vars

C9_Witness ==
    /\ last_call.op = "connect_nodes"
    /\ Len(edges) >= 2
    /\ edges[Len(edges) - 1].id = edges[Len(edges)].id
    /\ edges[Len(edges)].source \in DOMAIN block_to_func

ConditionIndexes == {i \in FunctionalIndexes : nodes[i].type = "condition"}

\* C11: in every condition node the branch ids of its branch list are pairwise
\* distinct, whether the caller supplied condition_ids or not.
C11_BranchIdsDistinct ==
    \A i \in ConditionIndexes :
        LET branches == nodes[i].config.if_else_conditions
        IN  \A j, k \in 1..Len(branches) :
                j # k => branches[j].condition_id # branches[k].condition_id

\* the uuids drawn by the step
FreshIds == {uuid(k) : k \in (uuid_count + 1)..uuid_count'}

\* C12: add_condition gives every branch without a condition_id a fresh id of its
\* own, keeps every supplied id, writes the ids into the caller's records and
\* nothing else, and returns the ids, one per branch, in declaration order.
C12_BranchIdsAssigned ==
    [][last_call'.op = "add_condition"
          => LET given == last_call'.args.if_else_conditions
                 after == last_call'.args.after_call
                 ids   == last_call'.ret[2]
             IN  /\ Len(ids) = Len(given)
                 /\ Len(after) = Len(given)
                 /\ Last(nodes').id = last_call'.ret[1]
                 /\ nodes'[Len(nodes') - 1].config.if_else_conditions = after
                 /\ \A i \in 1..Len(given) :
                        /\ after[i] = [given[i] EXCEPT !.condition_id = ids[i]]
                        /\ given[i].condition_id # None => ids[i] = given[i].condition_id
                        /\ given[i].condition_id = None
                               => /\ ids[i] \in FreshIds
                                  /\ \A j \in 1..Len(given) :
                                         (j # i /\ given[j].condition_id = None)
                                             => ids[j] # ids[i]]_vars

C12_Witness ==
    /\ last_call.op = "add_condition"
    /\ \E i, j \in 1..Len(last_call.args.if_else_conditions) :
           /\ last_call.args.if_else_conditions[i].condition_id = None
           /\ last_call.args.if_else_conditions[j].condition_id # None
    /\ Len(nodes) >= 4

\* the builder fields no connect call writes
connect_frame == <<nodes, start_node, variables, functional_node_count,
                   block_node_count, last_block_id, node_handles, block_to_func,
                   func_to_block, flow_uuid, intention_uuid, uuid_count>>

\* C13: connect_condition_branch(c, b, t) returns the edge and leaves the state
\* that connect_nodes(c, t, source_handle = b) returns and leaves from the same
\* state.
C13_BranchIsConnect ==
    [][last_call'.op = "connect_condition_branch"
          => LET a  == last_call'.args
                 es == connect_nodes_edges(edges, node_handles, block_to_func,
                                           a.condition_block_id, a.target_block_id,
                                           a.condition_id, None)
             IN  /\ last_call'.ok
                 /\ edges' = es
                 /\ last_call'.ret = Last(es)
                 /\ UNCHANGED connect_frame]_vars

C13_Witness ==
    /\ last_call.op = "connect_condition_branch"
    /\ last_call.args.target_block_id \in DOMAIN block_to_func
    /\ last_call.args.condition_id \in branch_ids(last_call.args.condition_block_id)
    /\ Last(edges).targetHandle # Last(edges).target
    /\ Len(edges) >= 2

\* C14: connect_nodes without a target handle gives the edge the id of the
\* functional node the target wraps when the target is a known wrapper and the
\* target id itself otherwise; a target handle that is passed is used as it is.
C14_TargetHandle ==
    [][last_call'.op = "connect_nodes"
          => LET a == last_call'.args
                 e == Last(edges')
             IN  /\ Len(edges') = Len(edges) + 1
                 /\ e = last_call'.ret
                 /\ e.target = a.target_block_id
                 /\ a.target_handle # None => e.targetHandle = a.target_handle
                 /\ (a.target_handle = None /\ a.target_block_id \in DOMAIN block_to_func)
                        => e.targetHandle = block_to_func[a.target_block_id]
                 /\ (a.target_handle = None /\ a.target_block_id \notin DOMAIN block_to_func)
                        => e.targetHandle = a.target_block_id]_vars

C14_Witness ==
    /\ last_call.op = "connect_nodes"
    /\ last_call.args.target_handle = None
    /\ last_call.args.target_block_id \in DOMAIN block_to_func
    /\ Last(edges).targetHandle = block_to_func[Last(edges).target]
    /\ \E i \in 1..Len(edges) : edges[i].targetHandle = "y"

ConnectCalls == {"connect_nodes", "connect_condition_branch"}

\* C15: connect_nodes and connect_condition_branch succeed for every source and
\* target, an edge onto its own source or back to an element added earlier
\* included: the call appends exactly one edge, which the exported document
\* lists, and writes nothing else.
C15_CyclicWiring ==
    [][last_call'.op \in ConnectCalls
          => /\ last_call'.ok
             /\ Len(edges') = Len(edges) + 1
             /\ SubSeq(edges', 1, Len(edges)) = edges
             /\ Last(edges').source \in {last_call'.args[k] :
                        k \in DOMAIN last_call'.args \cap {"source_block_id",
                                                           "condition_block_id"}}
             /\ Last(edges').target = last_call'.args.target_block_id
             /\ document'.edges = edges'
             /\ UNCHANGED connect_frame]_vars

\* the position in the node list of the node with an id (0 when there is none)
IndexOf(id) ==
    IF \E i \in 1..Len(nodes) : nodes[i].id = id
    THEN CHOOSE i \in 1..Len(nodes) : nodes[i].id = id
    ELSE 0

\* the last call wired a wrapper back to a wrapper added before it, closing a loop
\* with an edge that runs the other way
C15_Witness ==
    /\ last_call.op \in ConnectCalls
    /\ last_call.ok
    /\ Last(edges).source \in DOMAIN block_to_func
    /\ Last(edges).target \in DOMAIN block_to_func
    /\ IndexOf(Last(edges).target) < IndexOf(Last(edges).source)
    /\ \E i \in 1..Len(edges) : /\ edges[i].source = Last(edges).target
                                 /\ edges[i].target = Last(edges).source

\* C16: to_json writes no field of the builder and returns the document of the
\* state it is called in, so a call that follows another to_json call returns the
\* document the first returned, ids included.
C16_ToJsonPure ==
    [][last_call'.op = "to_json"
          => /\ UNCHANGED <<builder_vars, uuid_count>>
             /\ last_call'.ok
             /\ last_call'.ret = document
             /\ last_call.op = "to_json" => last_call'.ret = last_call.ret]_vars

\* to_json has been called at least twice in a row (no other call leaves both the
\* node list and the edge list empty)
C16_Witness ==
    /\ last_call.op = "to_json"
    /\ calls >= 2
    /\ nodes = <<>>
    /\ edges = <<>>
    /\ last_call.ret.flow_uuid = flow_uuid
    /\ last_call.ret.flow_uuid # last_call.ret.intention_uuid

\* the positions of the start nodes in the node list of a document
DocumentStarts(doc) == {i \in 1..Len(doc.nodes) : doc.nodes[i].type = "start"}

\* C17 as claimed: every document to_json returns holds exactly one node of type
\* start, whose id is the document's start_node_uuid, the fixed entry id.
C17_DocumentHasOneEntry ==
    last_call.op = "to_json"
        => /\ Cardinality(DocumentStarts(last_call.ret)) = 1
           /\ \A i \in DocumentStarts(last_call.ret) :
                  last_call.ret.nodes[i].id = last_call.ret.start_node_uuid
           /\ last_call.ret.start_node_uuid = generate_start_node_id

\* C17 as amended: the start_node_uuid of every document is the fixed entry id; a
\* document exported after add_start_node has succeeded holds exactly one node of
\* type start, with that id, and a document exported before holds none.
C17_DocumentEntry ==
    last_call.op = "to_json"
        => /\ last_call.ret.start_node_uuid = generate_start_node_id
           /\ start_node # <<>> => Cardinality(DocumentStarts(last_call.ret)) = 1
           /\ start_node = <<>> => DocumentStarts(last_call.ret) = {}
           /\ \A i \in DocumentStarts(last_call.ret) :
                  last_call.ret.nodes[i].id = last_call.ret.start_node_uuid

C17_Witness ==
    /\ last_call.op = "to_json"
    /\ start_node # <<>>
    /\ Len(last_call.ret.nodes) >= 3
    /\ last_call.ret.nodes[1].type # "start"

\* the values under variable_assign of the outputs that have the key, in order
output_names(outputs) ==
    LET having == SelectSeq(outputs, LAMBDA o : "variable_assign" \in DOMAIN o)
    IN  [i \in 1..Len(having) |-> having[i].variable_assign]

\* the variable names a node uses, in the order its add operation registers them
node_names(node) ==
    IF node.type \in {"captureUserReply", "llmVariableAssignment"}
    THEN <<node.config.variable_assign>>
    ELSE IF node.type = "code" THEN output_names(node.config.outputs) ELSE <<>>

RECURSIVE used_names(_)
used_names(ns) == IF ns = <<>> THEN <<>> ELSE node_names(Head(ns)) \o used_names(Tail(ns))

\* a sequence without the repetitions of its elements
RECURSIVE first_uses(_)
first_uses(seq) ==
    IF seq = <<>> THEN <<>>
    ELSE LET init == first_uses(SubSeq(seq, 1, Len(seq) - 1))
         IN  IF \E i \in 1..Len(init) : init[i] = Last(seq) THEN init
             ELSE Append(init, Last(seq))

\* C19: the exported variables list has exactly one entry per distinct name used
\* by a capture node, an llm assignment node or a code output that has
\* variable_assign, in the order of first registration, and no other entry (text
\* reply, condition and llm reply nodes add none).
C19_ExportedVariables ==
    LET exported == document.variables
    IN  [i \in 1..Len(exported) |-> exported[i].variable_name] = first_uses(used_names(nodes))

\* a name has been used twice, by a capture node and by a code output, and nodes
\* of a type that registers nothing are in the list
C19_Witness ==
    /\ Len(document.variables) >= 2
    /\ Len(used_names(nodes)) > Len(document.variables)
    /\ \E i \in FunctionalIndexes : nodes[i].type = "code"
    /\ \E i \in FunctionalIndexes : nodes[i].type = "captureUserReply"

\* ----------------------------------------- the variable tracker on its own

\* VariableTracker.get_variable_names
get_variable_names(vs) == {vs[i].variable_name : i \in 1..Len(vs)}

\* VariableTracker.clear
clear(vs) == <<>>

\* A variant that takes the entry out and puts it back at the end
update_description_reinserting(vs, variable_name, description) ==
    Append(SelectSeq(vs, LAMBDA v : v.variable_name # variable_name),
           [variable_name |-> variable_name, description |-> description, lang |-> Lang])

\* VariableTracker.update_description, for a registered name: the entry keeps its
\* place and takes the description as given
update_description(vs, variable_name, description) ==
    [i \in 1..Len(vs) |-> IF vs[i].variable_name = variable_name
                           THEN [vs[i] EXCEPT !.description = description]
                           ELSE vs[i]]

\* the fields of the builder a tracker call does not touch
tracker_frame == <<nodes, start_node, edges, functional_node_count, block_node_count,
                   last_block_id, node_handles, block_to_func, func_to_block,
                   flow_uuid, intention_uuid, uuid_count>>

\* a tracker call that writes: the registry after it and what it returns
tracker_write(op, args, vs, ret) ==
    /\ variables' = vs
    /\ last_call' = returned(op, args, ret)
    /\ calls' = calls + 1
    /\ UNCHANGED tracker_frame

\* a tracker call that only reads
tracker_read(op, args, ret) == tracker_write(op, args, variables, ret)

VariableTracker_register(variable_name, description) ==
    tracker_write("register",
                  [variable_name |-> variable_name, description |-> description],
                  register(variables, variable_name, description), None)

VariableTracker_is_registered(variable_name) ==
    tracker_read("is_registered", [variable_name |-> variable_name],
                 is_registered(variables, variable_name))

VariableTracker_get_all_variables ==
    tracker_read("get_all_variables", <<>>, get_all_variables(variables))

VariableTracker_get_variable_names ==
    tracker_read("get_variable_names", <<>>, get_variable_names(variables))

VariableTracker_count == tracker_read("count", <<>>, count(variables))

VariableTracker_clear == tracker_write("clear", <<>>, clear(variables), None)

VariableTracker_update_description(variable_name, description) ==
    IF is_registered(variables, variable_name)
    THEN tracker_write("update_description",
                       [variable_name |-> variable_name, description |-> description],
                       update_description(variables, variable_name, description), None)
    ELSE /\ last_call' = raised("update_description",
                                [variable_name |-> variable_name,
                                 description   |-> description], "KeyError")
         /\ calls' = calls + 1
         /\ UNCHANGED <<variables, tracker_frame>>

MaxTrackerCalls == 4

\* names and descriptions a caller registers; the empty description and None
\* both stand for "no description"
TrackerNames == {"name", "age"}

TrackerDescriptions == {None, "", "user name", "years"}

\* at most MaxTrackerCalls calls are made
MayCallTracker == calls < MaxTrackerCalls

TrackerNext ==
    \/ \E variable_name \in TrackerNames, description \in TrackerDescriptions :
           MayCallTracker /\ no_tool /\ VariableTracker_register(variable_name, description)
    \/ \E variable_name \in TrackerNames :
           MayCallTracker /\ no_tool /\ VariableTracker_is_registered(variable_name)
    \/ MayCallTracker /\ no_tool /\ VariableTracker_get_all_variables
    \/ MayCallTracker /\ no_tool /\ VariableTracker_get_variable_names
    \/ MayCallTracker /\ no_tool /\ VariableTracker_count
    \/ MayCallTracker /\ no_tool /\ VariableTracker_clear
    \/ \E variable_name \in TrackerNames, description \in TrackerDescriptions \ {None} :
           MayCallTracker /\ no_tool /\ VariableTracker_update_description(variable_name, description)

TrackerSpec == Init /\ [][TrackerNext]_vars

\* C18: registering a name that is registered, with any description, leaves
\* count() as it was and every entry, the one of that name included, with the
\* description and at the position it had.
C18_RegisterIdempotent ==
    [][(/\ last_call'.op = "register"
        /\ is_registered(variables, last_call'.args.variable_name))
          => /\ count(variables') = count(variables)
             /\ \A i \in 1..Len(variables) :
                    /\ variables'[i].variable_name = variables[i].variable_name
                    /\ variables'[i].description = variables[i].description
                    /\ variables'[i].lang = variables[i].lang]_vars

\* the last call registered the first of two entries again, with a description
\* that is not the one the entry has
C18_Witness ==
    /\ last_call.op = "register"
    /\ Len(variables) = 2
    /\ last_call.args.variable_name = variables[1].variable_name
    /\ last_call.args.description \notin {None, "", variables[1].description}

\* C20: no call removes an entry of the registry: a name that is registered stays
\* registered and count() never decreases.
C20_NeverRemoves ==
    [][/\ \A name \in TrackerNames :
              is_registered(variables, name) => is_registered(variables', name)
       /\ count(variables') >= count(variables)]_vars

\* C21: update_description on a name that is not registered fails with KeyError
\* and leaves the registry as it was; on a registered name it replaces the
\* description of that entry and leaves count(), the order of the entries and
\* every other entry as they were.
C21_UpdateDescription ==
    [][last_call'.op = "update_description"
          => LET a == last_call'.args
             IN  IF is_registered(variables, a.variable_name)
                 THEN /\ last_call'.ok
                      /\ count(variables') = count(variables)
                      /\ \A i \in 1..Len(variables) :
                             /\ variables'[i].variable_name = variables[i].variable_name
                             /\ variables'[i].lang = variables[i].lang
                             /\ variables'[i].description
                                    = IF variables[i].variable_name = a.variable_name
                                      THEN a.description
                                      ELSE variables[i].description
                 ELSE /\ ~last_call'.ok
                      /\ last_call'.ret = "KeyError"
                      /\ variables' = variables]_vars

\* the last call gave the first of two entries a description it did not have at
\* its registration
C21_Witness ==
    /\ last_call.op = "update_description"
    /\ last_call.ok
    /\ Len(variables) = 2
    /\ variables[1].variable_name = last_call.args.variable_name
    /\ variables[1].description = "years"
    /\ variables[2].description # "years"

\* the wrapper of the functional node at position i of the node list
WrapperOf(i) == nodes[CHOOSE j \in BlockIndexes : nodes[j].id = nodes[i].blockId]

\* C22: wrapper.x - functional.x and wrapper.y - functional.y are the
\* same two values for every functional node / wrapper pair.
C22_FixedOffset ==
    \A i, j \in FunctionalIndexes :
        /\ WrapperOf(i).position.x - nodes[i].position.x
               = WrapperOf(j).position.x - nodes[j].position.x
        /\ WrapperOf(i).position.y - nodes[i].position.y
               = WrapperOf(j).position.y - nodes[j].position.y

\* C23: no two nodes of the node list have the same position.
C23_NoCollision ==
    \A i, j \in 1..Len(nodes) : i # j => nodes[i].position # nodes[j].position

\* C25: the cursor is the id the most recent successful add returned: the entry id
\* after add_start_node, the new wrapper's id after a functional add with
\* auto_connect on or off; a failed add_start_node, connect_nodes,
\* connect_condition_branch and to_json leave it as it was.
C25_Cursor ==
    [][/\ (last_call'.op = "add_start_node" /\ last_call'.ok)
          => /\ last_block_id' = last_call'.ret
             /\ last_block_id' = generate_start_node_id
       /\ last_call'.op \in FunctionalAdds \ {"add_condition"}
          => /\ last_block_id' = last_call'.ret
             /\ last_block_id' = Last(nodes').id
       /\ last_call'.op = "add_condition"
          => /\ last_block_id' = last_call'.ret[1]
             /\ last_block_id' = Last(nodes').id
       /\ (\/ last_call'.op \in ConnectCalls \cup {"to_json"}
           \/ ~last_call'.ok)
          => last_block_id' = last_block_id]_vars

\* the last call was a functional add with auto_connect off, made when a cursor
\* existed
C25_Witness ==
    /\ last_call.op \in FunctionalAdds
    /\ ~last_call.args.auto_connect
    /\ Len(nodes) >= 3
    /\ last_block_id = Last(nodes).id

\* ------------------------------------------------ utils/position_calc alone

\* PositionCalculator.reset: both counters as <<functional, block>>
reset == <<0, 0>>

\* PositionCalculator.get_stats
position_stats(fc, bc) == [functional_count |-> fc, block_count |-> bc]

\* the fields of the builder a calculator call does not touch
position_frame == <<nodes, start_node, edges, variables, last_block_id, node_handles,
                    block_to_func, func_to_block, flow_uuid, intention_uuid, uuid_count>>

\* since construction or the last reset, before the call recorded in last_call:
\* the get_node_pair_positions calls made and the direct calls of
\* get_functional_position and get_block_position made
pairs_before == IF "pairs" \in DOMAIN last_call THEN last_call.pairs ELSE 0

direct_before == IF "direct" \in DOMAIN last_call THEN last_call.direct ELSE 0

\* the same two numbers after that call
pairs_so_far ==
    IF last_call.op = "reset" THEN 0
    ELSE pairs_before + (IF last_call.op = "get_node_pair_positions" THEN 1 ELSE 0)

direct_so_far ==
    IF last_call.op = "reset" THEN 0
    ELSE direct_before
           + (IF last_call.op \in {"get_functional_position", "get_block_position"}
              THEN 1 ELSE 0)

\* a calculator call: the counters after it and what it returns
position_call(op, args, fc, bc, ret) ==
    /\ functional_node_count' = fc
    /\ block_node_count' = bc
    /\ last_call' = [op |-> op, args |-> args, ok |-> TRUE, ret |-> ret,
                     pairs |-> pairs_so_far, direct |-> direct_so_far]
    /\ calls' = calls + 1
    /\ UNCHANGED position_frame

PositionCalculator_get_start_position ==
    position_call("get_start_position", <<>>, functional_node_count, block_node_count,
                  get_start_position)

PositionCalculator_get_functional_position ==
    position_call("get_functional_position", <<>>, functional_node_count + 1,
                  block_node_count, get_functional_position(functional_node_count))

PositionCalculator_get_block_position(functional_y) ==
    position_call("get_block_position", [functional_y |-> functional_y],
                  functional_node_count, block_node_count + 1,
                  get_block_position(block_node_count, functional_y))

PositionCalculator_get_node_pair_positions ==
    position_call("get_node_pair_positions", <<>>, functional_node_count + 1,
                  block_node_count + 1,
                  get_node_pair_positions(functional_node_count, block_node_count))

PositionCalculator_reset == position_call("reset", <<>>, reset[1], reset[2], None)

PositionCalculator_get_stats ==
    position_call("get_stats", <<>>, functional_node_count, block_node_count,
                  position_stats(functional_node_count, block_node_count))

MaxPositionCalls == 4

\* heights a caller passes to get_block_position: that of the first functional
\* node and one that belongs to none
FunctionalYs == {FUNCTIONAL_START_Y, 0}

\* at most MaxPositionCalls calls are made
MayCallPosition == calls < MaxPositionCalls

PositionNext ==
    \/ MayCallPosition /\ no_tool /\ PositionCalculator_get_start_position
    \/ MayCallPosition /\ no_tool /\ PositionCalculator_get_functional_position
    \/ \E functional_y \in FunctionalYs :
           MayCallPosition /\ no_tool /\ PositionCalculator_get_block_position(functional_y)
    \/ MayCallPosition /\ no_tool /\ PositionCalculator_get_node_pair_positions
    \/ MayCallPosition /\ no_tool /\ PositionCalculator_reset
    \/ MayCallPosition /\ no_tool /\ PositionCalculator_get_stats

PositionSpec == Init /\ [][PositionNext]_vars

\* C24 as claimed: the k-th call (k = 0, 1, ...) of get_node_pair_positions since
\* construction or reset returns (125, 325 + 200k) and (475 + 350k, 275 + 200k) and
\* adds one to both counters; get_start_position returns (125, 325) and changes no
\* counter; a counter decreases only in reset.
C24_KthPair ==
    [][/\ last_call'.op = "get_node_pair_positions"
          => /\ last_call'.ret = <<[x |-> 125, y |-> 325 + 200 * last_call'.pairs],
                                   [x |-> 475 + 350 * last_call'.pairs,
                                    y |-> 275 + 200 * last_call'.pairs]>>
             /\ functional_node_count' = functional_node_count + 1
             /\ block_node_count' = block_node_count + 1
       /\ last_call'.op = "get_start_position"
          => /\ last_call'.ret = [x |-> 125, y |-> 325]
             /\ UNCHANGED <<functional_node_count, block_node_count>>
       /\ (\/ functional_node_count' < functional_node_count
           \/ block_node_count' < block_node_count)
          => last_call'.op = "reset"]_vars

\* C24 as amended: get_node_pair_positions returns (125, 325 + 200f) and
\* (475 + 350b, 275 + 200f), f and b being the functional and the block counter
\* before the call, and adds one to both; f = b = k, the number of earlier
\* get_node_pair_positions calls since construction or reset, when no
\* get_functional_position or get_block_position call was made since then.
\* get_start_position returns (125, 325) and changes no counter; a counter
\* decreases only in reset, which sets both to 0.
C24_PairPositions ==
    [][/\ last_call'.op = "get_node_pair_positions"
          => /\ last_call'.ret
                   = <<[x |-> 125, y |-> 325 + 200 * functional_node_count],
                       [x |-> 475 + 350 * block_node_count,
                        y |-> 275 + 200 * functional_node_count]>>
             /\ functional_node_count' = functional_node_count + 1
             /\ block_node_count' = block_node_count + 1
             /\ last_call'.direct = 0
                => /\ functional_node_count = last_call'.pairs
                   /\ block_node_count = last_call'.pairs
       /\ last_call'.op = "get_start_position"
          => /\ last_call'.ret = [x |-> 125, y |-> 325]
             /\ UNCHANGED <<functional_node_count, block_node_count>>
       /\ (\/ functional_node_count' < functional_node_count
           \/ block_node_count' < block_node_count)
          => last_call'.op = "reset"
       /\ last_call'.op = "reset"
          => functional_node_count' = 0 /\ block_node_count' = 0]_vars

\* the third get_node_pair_positions call in a row has returned
C24_Witness ==
    /\ last_call.op = "get_node_pair_positions"
    /\ last_call.pairs = 2
    /\ last_call.direct = 0
    /\ last_call.ret = <<[x |-> 125, y |-> 725], [x |-> 1175, y |-> 675]>>

\* ------------------------------------------------------------- agent/tools
\* Texts the source writes in Chinese are given in English.  A formatted text
\* (an f-string) is the sequence of its parts.

\* dict.get(k, default)
get(d, k, default) == IF k \in DOMAIN d THEN d[k] ELSE default

\* the truth value Python gives a string or None
truthy(v) == v \notin {None, ""}

\* a or b
either(a, b) == IF truthy(a) THEN a ELSE b

\* s.split()[0], for a text that does not start with a blank
first_word(s) ==
    LET blanks == {i \in 1..Len(s) : SubSeq(s, i, i) = " "}
    IN  IF blanks = {} THEN s
        ELSE SubSeq(s, 1, (CHOOSE i \in blanks : \A j \in blanks : i <= j) - 1)

SUPABASE_URL == ""

SUPABASE_BUCKET == "workflows"

\* the step types generate_workflow has a branch for
StepTypes == {"textReply", "captureUserReply", "condition", "code",
              "llmVariableAssignment", "llMReply", "llmReply"}

\* step.get("config", step), as a sequence of length 0 (None) or 1
step_config(step) == IF "config" \in DOMAIN step THEN step.config ELSE <<step>>

\* the branch list generate_workflow builds for a condition step that brings none
simple_condition(config) ==
    LET condition_str   == either(get(config, "condition", None),
                                  get(config, "expression", ""))
        condition_var   == either(get(config, "variable", None),
                                  get(config, "condition_variable", ""))
        condition_value == either(get(config, "value", None),
                                  get(config, "condition_value", ""))
        condition_name  == either(get(config, "condition_name", None),
                                  get(config, "name", "condition"))
    IN  IF truthy(condition_str) \/ (truthy(condition_var) /\ truthy(condition_value))
        THEN <<Branch(None, condition_name, "and",
                      <<[condition_type      |-> "variable",
                         comparison_operator |-> get(config, "operator", "="),
                         condition_value     |-> either(condition_value, condition_str),
                         condition_variable  |->
                             IF truthy(condition_str)
                             THEN either(condition_var, first_word(condition_str))
                             ELSE ""]>>)>>
        ELSE <<Branch(None, condition_name, "and", <<>>)>>

\* the branch list handed to add_condition
step_if_else(config) ==
    LET if_else == get(config, "if_else_conditions", <<>>)
    IN  IF if_else = <<>> THEN simple_condition(config) ELSE if_else

\* Workflow.get_stats
get_stats(flow_name) ==
    [flow_name      |-> flow_name,
     node_count     |-> Len(nodes),
     edge_count     |-> Len(edges),
     variable_count |-> count(variables),
     has_start_node |-> start_node # <<>>]

\* save_workflow_to_file: the name an upload starts with
with_json(filename) ==
    IF Len(filename) >= 5 /\ SubSeq(filename, Len(filename) - 4, Len(filename)) = ".json"
    THEN filename
    ELSE filename \o ".json"

\* the name the retry loop gives the upload when its counter is counter
retry_filename(filename, counter) ==
    SubSeq(with_json(filename), 1, Len(with_json(filename)) - 5)
        \o "_" \o ToString(counter) \o ".json"

\* one requests.post with the answer it got (a response, or the error raised);
\* counter is the loop counter after it.  The byte size of the content is left out.
post(final_filename, user_id, workflow, counter, response) ==
    [filename     |-> final_filename,
     storage_path |-> user_id \o "/" \o final_filename,
     content      |-> workflow,
     counter      |-> counter,
     response     |-> response]

\* the retry loop's condition after the request
\* A variant whose loop runs while the counter is at most 100
may_retry_once_more(request) ==
    /\ "status_code" \in DOMAIN request.response
    /\ request.response.status_code \in {400, 409}
    /\ request.counter <= 100

may_retry(request) ==
    /\ "status_code" \in DOMAIN request.response
    /\ request.response.status_code \in {400, 409}
    /\ request.counter < 100

\* what save_workflow_to_file returns after its last request
save_result(request) ==
    IF "raised" \in DOMAIN request.response
    THEN [success |-> FALSE,
          error   |-> <<request.response.raised>>,
          message |-> <<"save failed: ", request.response.raised>>]
    ELSE IF request.response.status_code \notin {200, 201}
    THEN [success |-> FALSE,
          error   |-> <<"Upload failed: ", ToString(request.response.status_code),
                        " - ", request.response.text>>,
          message |-> <<"upload failed: ", request.response.text>>]
    ELSE [success      |-> TRUE,
          filename     |-> request.filename,
          storage_path |-> request.storage_path,
          storage_url  |-> SUPABASE_URL \o "/storage/v1/object/public/"
                               \o SUPABASE_BUCKET \o "/" \o request.storage_path,
          node_count   |-> Len(get(request.content, "nodes", <<>>)),
          message      |-> <<"saved [", request.filename, "], with ",
                             ToString(Len(get(request.content, "nodes", <<>>))),
                             " nodes">>]

\* what generate_workflow returns once the save has returned
generate_result(saved, stats) ==
    IF ~get(saved, "success", FALSE)
    THEN saved
    ELSE [success     |-> TRUE,
          filename    |-> get(saved, "filename", None),
          storage_url |-> get(saved, "storage_url", None),
          stats       |-> stats,
          message     |-> <<"generated and saved [", get(saved, "filename", None),
                            "], with ", ToString(stats.node_count), " nodes">>]

\* what generate_workflow returns when a step raised
generate_failure(error) ==
    [success |-> FALSE, error |-> <<error>>, message |-> <<"generation failed: ", error>>]

\* what quick_generate returns after its own save
quick_result(workflow_name, generated, saved) ==
    [success  |-> saved.success,
     filepath |-> get(saved, "filepath", None),
     stats    |-> generated.stats,
     message  |-> <<"generated ", workflow_name, ", saved to ",
                    get(saved, "filepath", None)>>]

\* generate_workflow up to its loop: a new Workflow (the state of Init) gets its
\* entry node
generate_workflow_begin(op, workflow_name, steps_in, lang, user_id) ==
    /\ pc = "idle"
    /\ tool_call' = [op |-> op, workflow_name |-> workflow_name, steps |-> steps_in,
                     lang |-> lang, user_id |-> user_id]
    /\ add_start_node
    /\ steps' = steps_in
    /\ pc' = "steps"
    /\ UNCHANGED <<requests, result>>

generate_workflow(workflow_name, steps_in, lang, user_id) ==
    generate_workflow_begin("generate_workflow", workflow_name, steps_in, lang, user_id)

\* one turn of generate_workflow's loop.  An error raised in it ends the call in
\* the except clause; the steps that follow stay unprocessed.
generate_workflow_step ==
    /\ pc = "steps"
    /\ steps # <<>>
    /\ steps' = Tail(steps)
    /\ LET step      == Head(steps)
           step_type == get(step, "type", "")
           config    == step_config(step)[1]
       IN  IF step_type \in StepTypes /\ step_config(step) = <<>>
           THEN /\ result' = <<returned(tool_call.op, tool_call,
                                 generate_failure("'NoneType' object has no attribute 'get'"))>>
                /\ pc' = "done"
                /\ UNCHANGED <<builder_vars, uuid_count, calls, last_call, tool_call,
                               requests>>
           ELSE /\ CASE step_type = "textReply" ->
                          add_text_reply(get(config, "text", ""),
                                         get(config, "title", "Response"), TRUE)
                     [] step_type = "captureUserReply" ->
                          add_capture_user_reply(
                              either(get(config, "variable", None),
                                     either(get(config, "variableName", None),
                                            get(config, "variable_name", "user_input"))),
                              either(get(config, "description", None),
                                     get(step, "description", None)),
                              get(config, "title", "Capture"), TRUE)
                     [] step_type = "condition" ->
                          add_condition(step_if_else(config),
                                        get(config, "title", "Condition"), TRUE)
                     [] step_type = "code" ->
                          add_code(get(config, "code", ""), get(config, "outputs", <<>>),
                                   get(config, "args", <<>>), get(config, "title", "Code"),
                                   TRUE)
                     [] step_type = "llmVariableAssignment" ->
                          add_llm_variable_assignment(
                              either(get(config, "prompt_template", None),
                                     get(config, "prompt", "")),
                              either(get(config, "variable", None),
                                     either(get(config, "variableName", None),
                                            get(config, "variable_assign", "result"))),
                              get(config, "title", "LLM Assignment"), TRUE)
                     [] step_type \in {"llMReply", "llmReply"} ->
                          add_llm_reply(
                              either(get(config, "prompt_template", None),
                                     either(get(config, "prompt", None),
                                            get(config, "message", ""))),
                              get(config, "title", "LLM Reply"), TRUE)
                     [] OTHER ->
                          UNCHANGED <<builder_vars, uuid_count, calls, last_call>>
                /\ UNCHANGED <<tool_call, pc, requests, result>>

\* after the loop: get_stats, to_json and the first request of
\* save_workflow_to_file
generate_workflow_save(response) ==
    /\ pc = "steps"
    /\ steps = <<>>
    /\ to_json
    /\ requests' = <<post(with_json(tool_call.workflow_name), tool_call.user_id,
                          document, 1, response)>>
    /\ pc' = "uploading"
    /\ UNCHANGED <<tool_call, steps, result>>

\* save_workflow_to_file called on its own, up to its first request
save_workflow_to_file(workflow, filename, user_id, response) ==
    /\ pc = "idle"
    /\ tool_call' = [op |-> "save_workflow_to_file", workflow_name |-> filename,
                     steps |-> <<>>, lang |-> Lang, user_id |-> user_id]
    /\ requests' = <<post(with_json(filename), user_id, workflow, 1, response)>>
    /\ pc' = "uploading"
    /\ UNCHANGED <<builder_vars, uuid_count, calls, last_call, steps, result>>

\* one turn of the loop that uploads again under a numbered name
save_workflow_to_file_retry(response) ==
    /\ pc \in {"uploading", "saving"}
    /\ may_retry(Last(requests))
    /\ requests' = Append(requests,
                          post(retry_filename(tool_call.workflow_name,
                                              Last(requests).counter),
                               tool_call.user_id, Last(requests).content,
                               Last(requests).counter + 1, response))
    /\ UNCHANGED <<builder_vars, uuid_count, calls, last_call, tool_call, pc, steps,
                   result>>

\* save_workflow_to_file returns, and its caller runs on: generate_workflow to
\* its return, quick_generate to its own save_workflow_to_file or to its return
tool_return(response) ==
    /\ pc \in {"uploading", "saving"}
    /\ ~may_retry(Last(requests))
    /\ LET saved     == save_result(Last(requests))
           generated == generate_result(saved, get_stats(tool_call.workflow_name))
       IN  CASE tool_call.op = "save_workflow_to_file" ->
                  /\ result' = <<returned(tool_call.op, tool_call, saved)>>
                  /\ pc' = "done"
                  /\ UNCHANGED requests
             [] tool_call.op = "generate_workflow" ->
                  /\ result' = <<returned(tool_call.op, tool_call, generated)>>
                  /\ pc' = "done"
                  /\ UNCHANGED requests
             [] tool_call.op = "quick_generate" /\ pc = "uploading" ->
                  IF ~get(generated, "success", FALSE)
                  THEN /\ result' = <<returned(tool_call.op, tool_call, generated)>>
                       /\ pc' = "done"
                       /\ UNCHANGED requests
                  ELSE IF "workflow" \notin DOMAIN generated
                  THEN /\ result' = <<raised(tool_call.op, tool_call, "KeyError")>>
                       /\ pc' = "done"
                       /\ UNCHANGED requests
                  ELSE /\ result' = <<returned("generate_workflow", tool_call, generated)>>
                       /\ pc' = "saving"
                       /\ requests' = Append(requests,
                                             post(with_json(tool_call.workflow_name),
                                                  "public", generated.workflow, 1,
                                                  response))
             [] tool_call.op = "quick_generate" /\ pc = "saving" ->
                  /\ result' = <<returned(tool_call.op, tool_call,
                                          quick_result(tool_call.workflow_name,
                                                       result[1].ret, saved))>>
                  /\ pc' = "done"
                  /\ UNCHANGED requests
    /\ UNCHANGED <<builder_vars, uuid_count, calls, last_call, tool_call, steps>>

\* ChatflowAgent.quick_generate up to the loop of generate_workflow; parsed is
\* what parse_workflow_description made of the description
quick_generate(description, workflow_name, lang, parsed) ==
    generate_workflow_begin("quick_generate", workflow_name, parsed,
                            IF lang = "zh" THEN "zh" ELSE "en", "public")

MaxSteps == 2

\* at most MaxConflicts uploads of one call are answered 400 or 409
MaxConflicts == 1

WorkflowNames == {"flow", "flow.json"}

\* steps as the parser writes them (under "config") and as a caller writes them
\* (flat): one of each type, a condition step with branches, with a condition
\* text, with a variable and a value, and with none of them
ConfigSteps ==
    { [type |-> "textReply", config |-> <<[text |-> "Hi"]>>],
      [type |-> "condition", config |-> <<[title |-> "Check"]>>],
      [type |-> "condition", config |-> <<[condition |-> "age > 18"]>>],
      [type |-> "condition",
       config |-> <<[if_else_conditions |->
                        <<Branch(None, "adult", "and", Adult),
                          Branch(None, "Other", "other", <<>>)>>]>>],
      [type |-> "code", config |-> <<[code |-> "pass",
                                      outputs |-> <<[name |-> "r", type |-> "string",
                                                     variable_assign |-> "age"]>>]>>],
      [type |-> "llMReply", config |-> <<[prompt_template |-> "reply"]>>] }

FlatSteps ==
    { [type |-> "captureUserReply", variableName |-> "name", description |-> "user name"],
      [type |-> "condition", variable |-> "age", operator |-> ">=", value |-> "18",
       condition_name |-> "adult", title |-> "Check age"],
      [type |-> "llmVariableAssignment", prompt |-> "extract", variable |-> "name"] }

\* steps generate_workflow has no branch for: a type it does not know, no type
UnknownSteps == { [type |-> "webhook", config |-> <<[url |-> "x"]>>], [text |-> "Hi"] }

\* steps whose "config" is None
BrokenSteps == { [type |-> "textReply", config |-> <<>>] }

Steps == ConfigSteps \cup FlatSteps \cup UnknownSteps \cup BrokenSteps

SeqsUpTo(S, n) == UNION {[1..m -> S] : m \in 0..n}

StepLists == SeqsUpTo(Steps, MaxSteps)

\* what the parser returns: steps of the types it knows, each with its config
ParsedStepLists == SeqsUpTo(ConfigSteps, MaxSteps)

\* the answers of the storage service, and the request failing altogether
Responses ==
    { [status_code |-> 200, text |-> ""],
      [status_code |-> 201, text |-> ""],
      [status_code |-> 400, text |-> "bad request"],
      [status_code |-> 409, text |-> "exists"],
      [status_code |-> 500, text |-> "error"],
      [raised |-> "ConnectionError"] }

\* the answers the next request can get
NextResponses ==
    IF Len(requests) < MaxConflicts
    THEN Responses
    ELSE {r \in Responses : "status_code" \in DOMAIN r => r.status_code \notin {400, 409}}

ToolNext ==
    \/ \E workflow_name \in WorkflowNames, steps_in \in StepLists :
           /\ generate_workflow(workflow_name, steps_in, "en", "public")
           /\ UNCHANGED rest_vars
    \/ generate_workflow_step /\ UNCHANGED rest_vars
    \/ \E response \in NextResponses :
           generate_workflow_save(response) /\ UNCHANGED rest_vars
    \/ \E filename \in WorkflowNames, response \in NextResponses :
           /\ save_workflow_to_file(document, filename, "public", response)
           /\ UNCHANGED rest_vars
    \/ \E response \in NextResponses :
           save_workflow_to_file_retry(response) /\ UNCHANGED rest_vars
    \/ \E response \in NextResponses : tool_return(response) /\ UNCHANGED rest_vars
    \/ \E workflow_name \in WorkflowNames, parsed \in ParsedStepLists :
           \E lang \in {"auto", "zh"} :
               /\ quick_generate("description", workflow_name, lang, parsed)
               /\ UNCHANGED rest_vars

ToolSpec == Init /\ [][ToolNext]_vars

\* the types of the steps generate_workflow was given, in order
InputTypes == [i \in 1..Len(tool_call.steps) |-> get(tool_call.steps[i], "type", "")]

\* the steps whose type generate_workflow has no branch for
UnknownInputs == {i \in 1..Len(tool_call.steps) : InputTypes[i] \notin StepTypes}

\* the steps in which generate_workflow raises an error
RaisingInputs ==
    {i \in 1..Len(tool_call.steps) :
        InputTypes[i] \in StepTypes /\ step_config(tool_call.steps[i]) = <<>>}

\* the node type every step of a known type stands for, in the order of the steps
ExpectedTypes ==
    LET known == SelectSeq(InputTypes, LAMBDA t : t \in StepTypes)
    IN  [i \in 1..Len(known) |-> IF known[i] = "llmReply" THEN "llMReply" ELSE known[i]]

\* the types of the functional nodes of a node list, in its order
FunctionalTypes(node_list) ==
    LET functional == SelectSeq(node_list, LAMBDA nd : nd.type \notin {"start", "block"})
    IN  [i \in 1..Len(functional) |-> functional[i].type]

\* the parts of a formatted text
Parts(text) == {text[i] : i \in 1..Len(text)}

\* a returned dict names the text t in its message or its error
Surfaced(ret, t) ==
    \/ t \in Parts(ret.message)
    \/ "error" \in DOMAIN ret /\ t \in Parts(ret.error)

\* generate_workflow has returned after a sequence with a step of unknown type and
\* no step that raises
UnknownStepDone ==
    /\ tool_call.op = "generate_workflow"
    /\ pc = "done"
    /\ RaisingInputs = {}
    /\ UnknownInputs # {}

\* the steps of unknown type added nothing and the others were processed in order
UnknownStepsSkipped ==
    UnknownStepDone
        => /\ FunctionalTypes(nodes) = ExpectedTypes
           /\ Len(nodes) = 1 + 2 * Len(ExpectedTypes)
           /\ Len(edges) = Len(ExpectedTypes)
           /\ steps = <<>>

\* C26: in generate_workflow a step of unknown type adds no node and no edge, the
\* later steps are processed in order, and the result returned names the
\* unknown type.
C26_UnknownStep ==
    /\ UnknownStepsSkipped
    /\ UnknownStepDone
          => \A i \in UnknownInputs : Surfaced(result[1].ret, InputTypes[i])

\* a condition step with no branches, no condition or expression text and no
\* variable with a value
MalformedCondition(step) ==
    /\ get(step, "type", "") = "condition"
    /\ step_config(step) # <<>>
    /\ LET config == step_config(step)[1]
       IN  /\ get(config, "if_else_conditions", <<>>) = <<>>
           /\ ~truthy(get(config, "condition", None))
           /\ ~truthy(get(config, "expression", None))
           /\ ~ /\ truthy(get(config, "variable", None))
                   \/ truthy(get(config, "condition_variable", None))
                /\ truthy(get(config, "value", None))
                   \/ truthy(get(config, "condition_value", None))

\* C27: a condition step with neither branches nor a simple condition does not
\* fail: it gives a condition node with exactly one branch, whose clause list is
\* empty and whose logical operator is "other", and the loop goes on.
C27_MalformedCondition ==
    [][(pc = "steps" /\ steps # <<>> /\ MalformedCondition(Head(steps))
          /\ steps' = Tail(steps))
       => /\ pc' = "steps"
          /\ Len(nodes') = Len(nodes) + 2
          /\ LET node == nodes'[Len(nodes') - 1]
             IN  /\ node.type = "condition"
                 /\ Len(node.config.if_else_conditions) = 1
                 /\ node.config.if_else_conditions[1].conditions = <<>>
                 /\ node.config.if_else_conditions[1].logical_operator = "other"]_vars

\* C28: when a step of the sequence raises an error, generate_workflow still
\* processes the other steps and exports a document with the entry node and the
\* node pairs of every valid step.
C28_PartialSequence ==
    (tool_call.op = "generate_workflow" /\ pc = "done" /\ RaisingInputs # {})
        => /\ steps = <<>>
           /\ requests # <<>>
           /\ requests[1].content.nodes # <<>>
           /\ requests[1].content.nodes[1].type = "start"
           /\ FunctionalTypes(requests[1].content.nodes) = ExpectedTypes

\* the storage service answered the request with a failure status
Failed(request) ==
    /\ "status_code" \in DOMAIN request.response
    /\ request.response.status_code \notin {200, 201}

\* the storage service stored the content of the request
Stored(request) ==
    /\ "status_code" \in DOMAIN request.response
    /\ request.response.status_code \in {200, 201}

\* C29: generate_workflow and save_workflow_to_file issue at most one upload
\* request per document, and when it is answered with a failure status they
\* return a failure result that carries the status.
C29_NoRetry ==
    tool_call.op \in {"generate_workflow", "save_workflow_to_file"}
        => /\ Len(requests) <= 1
           /\ (pc = "done" /\ requests # <<>> /\ Failed(Last(requests)))
                 => /\ ~result[1].ret.success
                    /\ ToString(Last(requests).response.status_code)
                           \in Parts(result[1].ret.error)

\* C30: when parsing, generation and storage succeed, quick_generate returns a
\* success result and the document has been stored exactly once.
C30_QuickGenerate ==
    (tool_call.op = "quick_generate" /\ pc = "done" /\ requests # <<>>
       /\ Stored(Last(requests)))
        => /\ result[1].ok
           /\ result[1].ret.success
           /\ Cardinality({i \in 1..Len(requests) : Stored(requests[i])}) = 1

\* ------------------------------------------------ two builders in one process

\* the fields Workflow.__init__ gives an instance that draws its two uuids after
\* the n-th
new_workflow(n) ==
    [nodes                 |-> <<>>,
     start_node            |-> <<>>,
     edges                 |-> <<>>,
     variables             |-> <<>>,
     functional_node_count |-> 0,
     block_node_count      |-> 0,
     last_block_id         |-> None,
     node_handles          |-> EmptyMap,
     block_to_func         |-> EmptyMap,
     func_to_block         |-> EmptyMap,
     flow_uuid             |-> uuid(n + 1),
     intention_uuid        |-> uuid(n + 2)]

\* the fields of the instance the calls go to
this ==
    [nodes                 |-> nodes,
     start_node            |-> start_node,
     edges                 |-> edges,
     variables             |-> variables,
     functional_node_count |-> functional_node_count,
     block_node_count      |-> block_node_count,
     last_block_id         |-> last_block_id,
     node_handles          |-> node_handles,
     block_to_func         |-> block_to_func,
     func_to_block         |-> func_to_block,
     flow_uuid             |-> flow_uuid,
     intention_uuid        |-> intention_uuid]

\* A variant in which the two position counters belong to the class: both
\* instances count on the same pair
switch_shared_counters ==
    /\ other # <<>>
    /\ other' = <<this>>
    /\ nodes' = other[1].nodes
    /\ start_node' = other[1].start_node
    /\ edges' = other[1].edges
    /\ variables' = other[1].variables
    /\ last_block_id' = other[1].last_block_id
    /\ node_handles' = other[1].node_handles
    /\ block_to_func' = other[1].block_to_func
    /\ func_to_block' = other[1].func_to_block
    /\ flow_uuid' = other[1].flow_uuid
    /\ intention_uuid' = other[1].intention_uuid
    /\ UNCHANGED <<functional_node_count, block_node_count, uuid_count, calls,
                   last_call, tool_vars, service_vars>>

\* the caller turns to its other instance: every field of an instance is its
\* own (Workflow.__init__ makes each of them anew), so all of them change hands
switch ==
    /\ other # <<>>
    /\ other' = <<this>>
    /\ nodes' = other[1].nodes
    /\ start_node' = other[1].start_node
    /\ edges' = other[1].edges
    /\ variables' = other[1].variables
    /\ functional_node_count' = other[1].functional_node_count
    /\ block_node_count' = other[1].block_node_count
    /\ last_block_id' = other[1].last_block_id
    /\ node_handles' = other[1].node_handles
    /\ block_to_func' = other[1].block_to_func
    /\ func_to_block' = other[1].func_to_block
    /\ flow_uuid' = other[1].flow_uuid
    /\ intention_uuid' = other[1].intention_uuid
    /\ UNCHANGED <<uuid_count, calls, last_call, tool_vars, service_vars>>

\* two instances made one after the other
PairInit ==
    /\ nodes = <<>>
    /\ start_node = <<>>
    /\ edges = <<>>
    /\ variables = <<>>
    /\ functional_node_count = 0
    /\ block_node_count = 0
    /\ last_block_id = None
    /\ node_handles = EmptyMap
    /\ block_to_func = EmptyMap
    /\ func_to_block = EmptyMap
    /\ flow_uuid = uuid(1)
    /\ intention_uuid = uuid(2)
    /\ other = <<new_workflow(2)>>
    /\ uuid_count = 4
    /\ calls = 0
    /\ last_call = [op |-> "__init__", args |-> <<>>, ok |-> TRUE, ret |-> None]
    /\ tool_call = [op |-> None]
    /\ pc = "idle"
    /\ steps = <<>>
    /\ requests = <<>>
    /\ result = <<>>
    /\ service_init
    /\ layout_init(<<>>, <<>>)

MaxPairCalls == 3

\* at most MaxPairCalls calls are made on the two instances together
MayCallPair == calls < MaxPairCalls

PairNext ==
    \/ MayCallPair /\ no_tool /\ add_start_node
    \/ \E text \in Texts, auto_connect \in BOOLEAN :
           MayCallPair /\ no_tool /\ add_text_reply(text, "Response", auto_connect)
    \/ \E capture \in Captures :
           MayCallPair /\ no_tool
               /\ add_capture_user_reply(capture[1], capture[2], "Capture", TRUE)
    \/ \E if_else_conditions \in BranchLists :
           MayCallPair /\ no_tool /\ add_condition(if_else_conditions, "Condition", TRUE)
    \/ \E source_block_id \in KnownIds, target_block_id \in KnownIds :
           MayCallPair /\ no_tool
               /\ connect_nodes(source_block_id, target_block_id, None, None)
    \/ MayCallPair /\ no_tool /\ to_json
    \/ switch

PairSpec == PairInit /\ [][PairNext]_vars

\* the ids of the nodes of an instance, the entry id (one constant) left out
OwnIds(w) == {w.nodes[i].id : i \in 1..Len(w.nodes)} \ {generate_start_node_id}

\* the functional nodes of an instance, in order
Functional(w) == SelectSeq(w.nodes, LAMBDA nd : nd.type \notin {"start", "block"})

\* the wrappers of an instance, in order
Wrappers(w) == SelectSeq(w.nodes, LAMBDA nd : nd.type = "block")

\* what an instance built by its own calls alone looks like, ids apart: its
\* counters count its own pairs, its k-th pair lies where the k-th pair of a
\* builder lies, its cursor is its own last node, its variables are those its own
\* capture nodes introduce
BuiltAlone(w) ==
    /\ w.functional_node_count = Len(Functional(w))
    /\ w.block_node_count = Len(Wrappers(w))
    /\ Len(w.nodes) = Len(w.start_node) + 2 * Len(Functional(w))
    /\ \A k \in 1..Len(Functional(w)) :
          /\ Functional(w)[k].position
                = [x |-> 125, y |-> 325 + 200 * (k - 1)]
          /\ Wrappers(w)[k].position
                = [x |-> 475 + 350 * (k - 1), y |-> 275 + 200 * (k - 1)]
          /\ Functional(w)[k].blockId = Wrappers(w)[k].id
    /\ w.last_block_id = IF w.nodes = <<>> THEN None ELSE w.nodes[Len(w.nodes)].id
    /\ DOMAIN w.block_to_func = {Wrappers(w)[k].id : k \in 1..Len(Wrappers(w))}
    /\ Len(w.variables)
          = Cardinality({Functional(w)[k].config.variable_assign :
                            k \in {j \in 1..Len(Functional(w)) :
                                      Functional(w)[j].type = "captureUserReply"}})

\* C31: two Workflow instances share no mutable state.  A call on one instance
\* leaves every field of the other as it was, and in every interleaving each of
\* the two is what its own calls alone make it, ids apart: its counters, the
\* positions of its pairs, its cursor, its maps and its variables follow from its
\* own nodes; the two never hold a generated node id in common.
C31_NoSharedState ==
    [][/\ (other' # <<this>>) => (other' = other)
       /\ (other' = <<this>> /\ other' # other) => (this' = other[1])
       /\ BuiltAlone(this)'
       /\ BuiltAlone(other[1])'
       /\ (OwnIds(this) \cap OwnIds(other[1]) = {})']_vars

\* both instances hold a pair of nodes, added in turns
C31_Witness ==
    /\ other # <<>>
    /\ Len(Functional(this)) >= 1
    /\ Len(Functional(other[1])) >= 1
    /\ last_call.op \in FunctionalAdds

\* a condition step in the simplified form the agent's prompt documents: a
\* variable, an operator and a value, and neither branches nor a condition or
\* expression text
SimplifiedCondition(step) ==
    /\ get(step, "type", "") = "condition"
    /\ step_config(step) # <<>>
    /\ LET config == step_config(step)[1]
       IN  /\ get(config, "if_else_conditions", <<>>) = <<>>
           /\ ~truthy(get(config, "condition", None))
           /\ ~truthy(get(config, "expression", None))
           /\ truthy(get(config, "variable", None))
           /\ truthy(get(config, "operator", None))
           /\ truthy(get(config, "value", None))

\* C32: for a condition step in the simplified form (variable, operator, value,
\* no condition or expression text) generate_workflow builds one branch whose
\* single comparison clause has the supplied variable as condition_variable, the
\* supplied operator as comparison_operator and the supplied value as
\* condition_value.
C32_SimplifiedCondition ==
    [][(pc = "steps" /\ steps # <<>> /\ SimplifiedCondition(Head(steps))
          /\ steps' = Tail(steps))
       => /\ Len(nodes') = Len(nodes) + 2
          /\ LET node   == nodes'[Len(nodes') - 1]
                 config == step_config(Head(steps))[1]
             IN  /\ node.type = "condition"
                 /\ Len(node.config.if_else_conditions) = 1
                 /\ Len(node.config.if_else_conditions[1].conditions) = 1
                 /\ LET clause == node.config.if_else_conditions[1].conditions[1]
                    IN  /\ clause.comparison_operator = config.operator
                        /\ clause.condition_value = config.value
                        /\ clause.condition_variable = config.variable]_vars

\* ------------------------------------------- save_workflow_to_file on its own

\* the answers the next upload can get when the storage service refuses as long
\* as it likes: any answer to the first request, and to the later ones any but
\* 400 (a refusal of a later request is a 409, the name being taken)
UploadResponses ==
    IF requests = <<>>
    THEN Responses
    ELSE {r \in Responses : "status_code" \in DOMAIN r => r.status_code # 400}

UploadNext ==
    \/ \E filename \in WorkflowNames, response \in UploadResponses :
           /\ save_workflow_to_file(document, filename, "public", response)
           /\ UNCHANGED rest_vars
    \/ \E response \in UploadResponses :
           save_workflow_to_file_retry(response) /\ UNCHANGED rest_vars
    \/ tool_return([status_code |-> 200, text |-> ""]) /\ UNCHANGED rest_vars

UploadSpec == Init /\ [][UploadNext]_vars

\* requests.post returns or raises, and the loop runs on
UploadLive == UploadSpec /\ WF_vars(UploadNext)

\* the storage service refused the request as a conflict
Refused(request) ==
    /\ "status_code" \in DOMAIN request.response
    /\ request.response.status_code \in {400, 409}

\* the name of the i-th upload of "flow" or "flow.json"
AttemptName(i) == IF i = 1 THEN "flow.json" ELSE "flow_" \o ToString(i - 1) \o ".json"

\* C33 (state part): at most 100 requests are made; the i-th goes to <base>.json
\* for i = 1 and to <base>_<i-1>.json after that; every request but the last was
\* answered 400 or 409; the call returns only when the last answer is another
\* one or 100 requests are made; a success names the path of the last request
\* in filename, storage_path and storage_url, and a last attempt still refused
\* gives success = false.
C33_Attempts ==
    /\ Len(requests) <= 100
    /\ \A i \in 1..Len(requests) :
          /\ requests[i].filename = AttemptName(i)
          /\ requests[i].storage_path = "public/" \o AttemptName(i)
          /\ i < Len(requests) => Refused(requests[i])
    /\ pc = "done"
          => /\ requests # <<>>
             /\ Refused(Last(requests)) => Len(requests) = 100
             /\ LET request == Last(requests)
                    ret     == result[1].ret
                IN  IF "status_code" \in DOMAIN request.response
                       /\ request.response.status_code \in {200, 201}
                    THEN /\ ret.success
                         /\ ret.filename = request.filename
                         /\ ret.storage_path = request.storage_path
                         /\ ret.storage_url
                               = "/storage/v1/object/public/workflows/"
                                   \o request.storage_path
                    ELSE ~ret.success

\* C33: save_workflow_to_file always terminates after at most 100 upload
\* requests, tried under <base>.json, <base>_1.json ... <base>_99.json in that
\* order; it goes on only after a 400 or 409 and stops at the first other
\* status; on success the result names the path of the last request, and when
\* the last attempt is still refused it returns success = false.
C33_Terminates ==
    /\ []C33_Attempts
    /\ [][requests' # requests /\ requests # <<>>
             => /\ Refused(Last(requests))
                /\ requests' = Append(requests, Last(requests'))
                /\ pc = "uploading"]_vars
    /\ (pc = "uploading") ~> (pc = "done")

\* the hundredth upload was refused as well, and the call has returned
C33_Witness ==
    /\ tool_call.op = "save_workflow_to_file"
    /\ pc = "done"
    /\ Len(requests) = 100
    /\ Refused(requests[100])
    /\ requests[100].filename = "flow_99.json"
    /\ ~result[1].ret.success

\* ------------------------------------------------------------- ChatflowAgent
\* The agent is used directly (as the command line does): no progress callback
\* is set, so _emit_progress does nothing.

\* what the calls of this section leave alone
only_chat ==
    UNCHANGED <<builder_vars, uuid_count, calls, last_call, tool_vars, other,
                stream_vars, file_vars, layout_vars>>

\* _process_tool_call: the tools it gives the agent's user_id to
tools_needing_user_id ==
    {"generate_workflow", "save_workflow_to_file", "list_workflow_files",
     "load_workflow_file"}

\* the tools of execute_tool whose function has a user_id parameter, "public" by
\* default
UserTools ==
    {"generate_workflow", "save_workflow_to_file", "list_workflow_files",
     "load_workflow_from_file"}

\* _process_tool_call, its first lines: tool_input after the injection
injected(tool_name, tool_input) ==
    IF tool_name \in tools_needing_user_id /\ "user_id" \notin DOMAIN tool_input
    THEN [k \in DOMAIN tool_input \cup {"user_id"} |->
             IF k = "user_id" THEN self_user_id ELSE tool_input[k]]
    ELSE tool_input

\* execute_tool: the call it makes, with the user_id the function runs with
\* (None for a function that has no such parameter)
execute_tool(tool_name, tool_input) ==
    [name    |-> tool_name,
     input   |-> tool_input,
     user_id |-> IF tool_name \in UserTools
                 THEN get(tool_input, "user_id", "public")
                 ELSE None]

\* ChatflowAgent.chat up to the first call of the model
chat(user_message) ==
    /\ chat_pc = "idle"
    /\ messages' = Append(messages, [role |-> "user", content |-> user_message])
    /\ chat_pc' = "thinking"
    /\ reply' = <<>>
    /\ UNCHANGED <<self_user_id, blocks, tool_results, executed>>

\* one turn of _run_agentic_loop up to its first tool call: client.messages.create
\* answers with response, or raises
messages_create(response) ==
    /\ chat_pc = "thinking"
    /\ IF "raised" \in DOMAIN response
       THEN /\ reply' = <<[ok |-> FALSE, ret |-> response.raised]>>
            /\ chat_pc' = "idle"
            /\ UNCHANGED <<messages, blocks>>
       ELSE IF response.stop_reason = "end_turn"
       THEN /\ messages' = Append(messages, [role |-> "assistant",
                                             content |-> response.content])
            /\ reply' = <<[ok |-> TRUE, ret |-> response.text]>>
            /\ chat_pc' = "idle"
            /\ UNCHANGED blocks
       ELSE IF response.stop_reason = "tool_use"
       THEN /\ messages' = Append(messages, [role |-> "assistant",
                                             content |-> response.content])
            /\ blocks' = SelectSeq(response.content, LAMBDA b : b.type = "tool_use")
            /\ chat_pc' = "tools"
            /\ UNCHANGED reply
       ELSE /\ reply' = <<[ok |-> TRUE,
                           ret |-> IF response.text # "" THEN response.text
                                   ELSE "an error occurred"]>>
            /\ chat_pc' = "idle"
            /\ UNCHANGED <<messages, blocks>>
    /\ tool_results' = <<>>
    /\ UNCHANGED <<self_user_id, executed>>

\* _process_tool_call for the next tool_use block, the tool answering with
\* tool_result; after the last block the results join the history and the loop
\* calls the model again
process_tool_call(tool_result) ==
    /\ chat_pc = "tools"
    /\ blocks # <<>>
    /\ LET block    == Head(blocks)
           call     == execute_tool(block.name, injected(block.name, block.input))
           results  == Append(tool_results,
                              [type |-> "tool_result", tool_use_id |-> block.id,
                               content |-> tool_result])
       IN  /\ executed' = Append(executed, call)
           /\ blocks' = Tail(blocks)
           /\ IF Tail(blocks) = <<>>
              THEN /\ messages' = Append(messages, [role |-> "user",
                                                    content |-> results])
                   /\ tool_results' = <<>>
                   /\ chat_pc' = "thinking"
              ELSE /\ tool_results' = results
                   /\ UNCHANGED <<messages, chat_pc>>
    /\ UNCHANGED <<self_user_id, reply>>

\* at most MaxMessages messages enter the history
MaxMessages == 4

\* the tool calls the model asks for: each tool that takes a user_id, without
\* and with one, and one that takes none
ToolUses ==
    {[type |-> "tool_use", id |-> "t1", name |-> name, input |-> input] :
        name \in UserTools, input \in {[filename |-> "flow"],
                                       [filename |-> "flow", user_id |-> "bob"]}}
      \cup {[type |-> "tool_use", id |-> "t1", name |-> "validate_workflow",
             input |-> [workflow |-> "flow"]]}

\* the answers of the model: a final text, one or two tool calls, a text cut
\* off at max_tokens (with and without text), and the request failing
ModelResponses ==
    {[stop_reason |-> "end_turn", text |-> "done",
      content |-> <<[type |-> "text", text |-> "done"]>>]}
      \cup {[stop_reason |-> "tool_use", text |-> "", content |-> <<b>>] :
               b \in ToolUses}
      \cup {[stop_reason |-> "tool_use", text |-> "",
             content |-> <<[type |-> "tool_use", id |-> "t1",
                            name |-> "list_workflow_files",
                            input |-> [prefix |-> ""]],
                           [type |-> "tool_use", id |-> "t2",
                            name |-> "load_workflow_from_file",
                            input |-> [filename |-> "flow"]]>>]}
      \cup {[stop_reason |-> "max_tokens", text |-> t,
             content |-> <<[type |-> "text", text |-> t]>>] : t \in {"", "part"}}
      \cup {[raised |-> "APIError"]}

\* the answers that fit into the history
NextModelResponses ==
    {r \in ModelResponses :
        ("stop_reason" \in DOMAIN r /\ r.stop_reason = "tool_use")
            => Len(messages) + 2 <= MaxMessages}

\* what a tool hands back to the model
ToolResults == {[success |-> TRUE, message |-> "OK"],
                [success |-> FALSE, message |-> "failed"]}

ChatNext ==
    \/ /\ Len(messages) < MaxMessages
       /\ chat("hello")
       /\ only_chat
    \/ \E response \in NextModelResponses : messages_create(response) /\ only_chat
    \/ \E tool_result \in ToolResults : process_tool_call(tool_result) /\ only_chat

ChatSpec == Init /\ [][ChatNext]_vars

\* the roles of the history
Roles == [i \in 1..Len(messages) |-> messages[i].role]

\* C34: after every return of chat, whatever stop reasons the model produced,
\* the history alternates user and assistant roles starting with user and ends
\* with an assistant message.
C34_Alternation ==
    (chat_pc = "idle" /\ reply # <<>> /\ reply[1].ok)
        => /\ \A i \in 1..Len(messages) :
                 Roles[i] = IF i % 2 = 1 THEN "user" ELSE "assistant"
           /\ messages # <<>>
           /\ Roles[Len(messages)] = "assistant"

\* C40: for every tool that stores or loads workflows per user, a tool call the
\* model issues without a user_id runs with the agent's own user_id, and a
\* user_id it supplies is left unchanged.
C40_UserIdInjection ==
    [][(chat_pc = "tools" /\ executed' # executed /\ Head(blocks).name \in UserTools)
          => /\ executed' = Append(executed, Last(executed'))
             /\ Last(executed').name = Head(blocks).name
             /\ Last(executed').user_id
                   = IF "user_id" \in DOMAIN Head(blocks).input
                     THEN Head(blocks).input.user_id
                     ELSE self_user_id]_vars

\* ------------------------------------------------------------ /api/chat/stream
\* Each request has its own queue, its own closure progress_callback and its own
\* thread run_agent; the agent comes from the cache user_agents.  What chat does
\* inside is left out but for the events it emits.

\* what the steps of this section leave alone
only_stream ==
    UNCHANGED <<builder_vars, uuid_count, calls, last_call, tool_vars, other,
                chat_vars, file_vars, layout_vars>>

\* event_queue.put of request r
put(queues, r, event) == [queues EXCEPT ![r] = Append(@, event)]

\* an event, with the request whose processing made it
event(type, r) == [type |-> type, of |-> r]

\* the end signal (None)
Sentinel == [type |-> "None", of |-> 0]

\* the thread of request r moves on
at(r, pc_next) == [threads EXCEPT ![r].pc = pc_next]

\* chat_stream: the request arrives, event_generator starts the thread
chat_stream(r) ==
    /\ threads[r].pc = "none"
    /\ threads' = at(r, "get_agent")
    /\ UNCHANGED <<user_agents, callbacks, event_queue, streams, ended, dropped>>

\* get_agent, up to the test of the cache
get_agent_lookup(r) ==
    /\ threads[r].pc = "get_agent"
    /\ IF user_agents = <<>>
       THEN threads' = at(r, "create")
       ELSE threads' = [threads EXCEPT ![r].pc = "set", ![r].agent = user_agents[1]]
    /\ UNCHANGED <<user_agents, callbacks, event_queue, streams, ended, dropped>>

\* get_agent, after the test found no agent: a new agent enters the cache, or
\* get_config raises and run_agent reports the error
get_agent_create(r, made) ==
    /\ threads[r].pc = "create"
    /\ IF made
       THEN /\ callbacks' = Append(callbacks, 0)
            /\ user_agents' = <<Len(callbacks) + 1>>
            /\ threads' = [threads EXCEPT ![r].pc = "set",
                                          ![r].agent = Len(callbacks) + 1]
            /\ UNCHANGED event_queue
       ELSE /\ event_queue' = put(event_queue, r, event("agent_error", r))
            /\ threads' = at(r, "finally")
            /\ UNCHANGED <<user_agents, callbacks>>
    /\ UNCHANGED <<streams, ended, dropped>>

\* agent.set_progress_callback(progress_callback)
set_progress_callback(r) ==
    /\ threads[r].pc = "set"
    /\ callbacks' = [callbacks EXCEPT ![threads[r].agent] = r]
    /\ threads' = at(r, "started")
    /\ UNCHANGED <<user_agents, event_queue, streams, ended, dropped>>

\* progress_callback("progress", started), called by run_agent itself
started(r) ==
    /\ threads[r].pc = "started"
    /\ event_queue' = put(event_queue, r, event("progress", r))
    /\ threads' = at(r, "chat")
    /\ UNCHANGED <<user_agents, callbacks, streams, ended, dropped>>

\* at most MaxEmits events are emitted while one request is processed
MaxEmits == 1

\* _emit_progress, called by the agent while it processes request r: the event
\* goes to the callback the agent holds now
emit_progress(r, type) ==
    /\ threads[r].pc = "chat"
    /\ threads[r].emitted < MaxEmits
    /\ LET callback == callbacks[threads[r].agent]
       IN  IF callback # 0
           THEN /\ event_queue' = put(event_queue, callback, event(type, r))
                /\ UNCHANGED dropped
           ELSE /\ dropped' = Append(dropped, event(type, r))
                /\ UNCHANGED event_queue
    /\ threads' = [threads EXCEPT ![r].emitted = @ + 1]
    /\ UNCHANGED <<user_agents, callbacks, streams, ended>>

\* agent.chat returns and run_agent sends the result, or it raises and run_agent
\* sends the error
chat_returns(r, ok) ==
    /\ threads[r].pc = "chat"
    /\ event_queue' = put(event_queue, r,
                          event(IF ok THEN "result" ELSE "agent_error", r))
    /\ threads' = at(r, "finally")
    /\ UNCHANGED <<user_agents, callbacks, streams, ended, dropped>>

\* finally: event_queue.put(None)
put_sentinel(r) ==
    /\ threads[r].pc = "finally"
    /\ event_queue' = put(event_queue, r, Sentinel)
    /\ threads' = at(r, "clear")
    /\ UNCHANGED <<user_agents, callbacks, streams, ended, dropped>>

\* finally: get_agent(user_id).set_progress_callback(None); with no agent in the
\* cache get_agent makes one, or raises again and the thread ends
clear_progress_callback(r, made) ==
    /\ threads[r].pc = "clear"
    /\ IF user_agents # <<>>
       THEN /\ callbacks' = [callbacks EXCEPT ![user_agents[1]] = 0]
            /\ UNCHANGED user_agents
       ELSE IF made
       THEN /\ callbacks' = Append(callbacks, 0)
            /\ user_agents' = <<Len(callbacks) + 1>>
       ELSE UNCHANGED <<user_agents, callbacks>>
    /\ threads' = at(r, "finished")
    /\ UNCHANGED <<event_queue, streams, ended, dropped>>

\* event_generator: one turn of its loop that finds an event in the queue
event_generator(r) ==
    /\ threads[r].pc # "none"
    /\ ~ended[r]
    /\ event_queue[r] # <<>>
    /\ event_queue' = [event_queue EXCEPT ![r] = Tail(@)]
    /\ IF Head(event_queue[r]) = Sentinel
       THEN /\ ended' = [ended EXCEPT ![r] = TRUE]
            /\ UNCHANGED streams
       ELSE /\ streams' = [streams EXCEPT ![r] = Append(@, Head(event_queue[r]))]
            /\ UNCHANGED ended
    /\ UNCHANGED <<user_agents, callbacks, threads, dropped>>

StreamNext ==
    \/ \E r \in Requests : chat_stream(r) /\ only_stream
    \/ \E r \in Requests : get_agent_lookup(r) /\ only_stream
    \/ \E r \in Requests, made \in BOOLEAN : get_agent_create(r, made) /\ only_stream
    \/ \E r \in Requests : set_progress_callback(r) /\ only_stream
    \/ \E r \in Requests : started(r) /\ only_stream
    \/ \E r \in Requests, type \in {"progress", "tool"} :
           emit_progress(r, type) /\ only_stream
    \/ \E r \in Requests, ok \in BOOLEAN : chat_returns(r, ok) /\ only_stream
    \/ \E r \in Requests : put_sentinel(r) /\ only_stream
    \/ \E r \in Requests, made \in BOOLEAN :
           clear_progress_callback(r, made) /\ only_stream
    \/ \E r \in Requests : event_generator(r) /\ only_stream

StreamSpec == Init /\ [][StreamNext]_vars

\* the terminal events
Terminal == {"result", "agent_error"}

\* the places of the terminal events in the stream of request r
Terminals(r) == {i \in 1..Len(streams[r]) : streams[r][i].type \in Terminal}

\* C35: the stream of every request delivers exactly one terminal event ('result'
\* or an error event), after every progress or tool event of the request and
\* with nothing after it, and then ends.
C35_TerminalLast ==
    \A r \in Requests :
       /\ Cardinality(Terminals(r)) <= 1
       /\ Terminals(r) \subseteq {Len(streams[r])}
       /\ ended[r] => Terminals(r) = {Len(streams[r])}
       /\ threads[r].pc \in {"clear", "finished"}
             => (ended[r] \/ \E i \in 1..Len(event_queue[r]) :
                                   event_queue[r][i] = Sentinel)

\* C36: with two requests of one user running at the same time, every progress
\* or tool event emitted while one of them is processed reaches that request's
\* own stream and no other, and none is dropped.
C36_OwnStream ==
    /\ dropped = <<>>
    /\ \A r \in Requests :
          /\ \A i \in 1..Len(event_queue[r]) :
                event_queue[r][i] # Sentinel => event_queue[r][i].of = r
          /\ \A i \in 1..Len(streams[r]) : streams[r][i].of = r

\* ------------------------------------- add_node_to_workflow, delete_node_from_workflow
\* A workflow is built and saved (Workflow.save) to a file of the output
\* directory; from then on the two tools edit the file.  While add_node_to_workflow
\* runs, the builder variables hold its local Workflow wf.

\* what the steps of this section leave alone
only_files == UNCHANGED <<tool_vars, other, chat_vars, stream_vars, layout_vars>>

\* the builder is left as it is
no_build == UNCHANGED <<builder_vars, uuid_count, calls, last_call>>

\* Workflow.save: to_json, written to the file
save ==
    /\ file_pc = "building"
    /\ files' = <<document>>
    /\ file_pc' = "stored"
    /\ UNCHANGED <<file_call, file_result, file_calls>>
    /\ no_build

\* the result of a file tool, with the file as the call found it
file_returned(call, ret) ==
    [op |-> call.op, args |-> call, ret |-> ret, before |-> files]

\* add_node_to_workflow up to the node it adds: the file is loaded and a new
\* Workflow takes its nodes (the edges and variables of the file are put into
\* attributes of wf that nothing reads: edges live in wf.edge_manager and
\* variables in wf.variable_tracker).  With no file, open raises.
add_node_to_workflow(node_type, config, after_node_id) ==
    /\ file_pc \in {"building", "stored"}
    /\ file_calls' = file_calls + 1
    /\ LET call == [op |-> "add_node_to_workflow", node_type |-> node_type,
                    config |-> config, after_node_id |-> after_node_id]
       IN  IF files = <<>>
           THEN /\ file_result' = file_returned(call, [success |-> FALSE,
                                                       error |-> "FileNotFoundError"])
                /\ UNCHANGED <<files, file_pc, file_call>>
                /\ no_build
           ELSE /\ file_call' = call
                /\ file_pc' = "loaded"
                /\ nodes' = get(files[1], "nodes", <<>>)
                /\ start_node' = <<>>
                /\ edges' = <<>>
                /\ variables' = <<>>
                /\ functional_node_count' = 0
                /\ block_node_count' = 0
                /\ last_block_id' = None
                /\ node_handles' = EmptyMap
                /\ block_to_func' = EmptyMap
                /\ func_to_block' = EmptyMap
                /\ flow_uuid' = uuid(uuid_count + 1)
                /\ intention_uuid' = uuid(uuid_count + 2)
                /\ uuid_count' = uuid_count + 2
                /\ UNCHANGED <<files, file_result, calls, last_call>>

\* add_node_to_workflow: the dispatch on node_type; a type it has no branch for
\* ends the call with a failure
add_node_to_workflow_add ==
    /\ file_pc = "loaded"
    /\ LET node_type == file_call.node_type
           config    == file_call.config
       IN  IF node_type \in {"textReply", "captureUserReply", "llmVariableAssignment",
                             "llMReply"}
           THEN /\ CASE node_type = "textReply" ->
                          add_text_reply(get(config, "text", ""),
                                         get(config, "title", "New Reply"), FALSE)
                     [] node_type = "captureUserReply" ->
                          add_capture_user_reply(get(config, "variable_name", "new_var"),
                                                 get(config, "description", ""),
                                                 get(config, "title", "New Capture"),
                                                 FALSE)
                     [] node_type = "llmVariableAssignment" ->
                          add_llm_variable_assignment(
                              get(config, "prompt", ""),
                              get(config, "variable_assign", "extracted"),
                              get(config, "title", "New LLM Assignment"), FALSE)
                     [] node_type = "llMReply" ->
                          add_llm_reply(get(config, "prompt", ""),
                                        get(config, "title", "New LLM Reply"), FALSE)
                /\ file_pc' = "added"
                /\ UNCHANGED <<files, file_call, file_result, file_calls>>
           ELSE /\ file_result' = file_returned(file_call,
                                                [success |-> FALSE,
                                                 error |-> "unsupported node type"])
                /\ file_pc' = "stored"
                /\ UNCHANGED <<files, file_call, file_calls>>
                /\ no_build

\* add_node_to_workflow after the node is added: the connection when
\* after_node_id is given, wf.save, and the result; an error raised on the way
\* ends the call with a failure and the file is not written
add_node_to_workflow_save ==
    /\ file_pc = "added"
    /\ file_pc' = "stored"
    /\ LET new_block_id == last_call.ret
       IN  IF ~last_call.ok
           THEN /\ file_result' = file_returned(file_call, [success |-> FALSE,
                                                            error |-> last_call.ret])
                /\ UNCHANGED files
                /\ no_build
           ELSE /\ IF truthy(file_call.after_node_id)
                   THEN connect_nodes(file_call.after_node_id, new_block_id, None, None)
                   ELSE no_build
                /\ IF last_call'.ok
                   THEN /\ files' = <<document'>>
                        /\ file_result' = file_returned(file_call,
                                                        [success     |-> TRUE,
                                                         new_node_id |-> new_block_id])
                   ELSE /\ file_result' = file_returned(file_call,
                                                        [success |-> FALSE,
                                                         error |-> last_call'.ret])
                        /\ UNCHANGED files
    /\ UNCHANGED <<file_call, file_calls>>

\* A variant that drops only the edges leaving the node
remaining_edges_by_source(edge_list, node_id) ==
    SelectSeq(edge_list, LAMBDA e : e.source # node_id)

\* delete_node_from_workflow: the edges it keeps
remaining_edges(edge_list, node_id) ==
    SelectSeq(edge_list, LAMBDA e : e.source # node_id /\ e.target # node_id)

\* delete_node_from_workflow
delete_node_from_workflow(node_id) ==
    /\ file_pc \in {"building", "stored"}
    /\ file_calls' = file_calls + 1
    /\ LET call == [op |-> "delete_node_from_workflow", node_id |-> node_id]
       IN  IF files = <<>>
           THEN /\ file_result' = file_returned(call, [success |-> FALSE,
                                                       error |-> "FileNotFoundError"])
                /\ UNCHANGED files
           ELSE LET workflow == files[1]
                    kept     == SelectSeq(get(workflow, "nodes", <<>>),
                                          LAMBDA n : n.id # node_id)
                IN  IF Len(kept) = Len(get(workflow, "nodes", <<>>))
                    THEN /\ file_result' = file_returned(call,
                                                         [success |-> FALSE,
                                                          error |-> "node not found"])
                         /\ UNCHANGED files
                    ELSE /\ files' = <<[workflow EXCEPT
                                           !.nodes = kept,
                                           !.edges = remaining_edges(workflow.edges,
                                                                     node_id)]>>
                         /\ file_result' = file_returned(call,
                                                         [success |-> TRUE,
                                                          deleted_node_id |-> node_id])
    /\ UNCHANGED <<file_pc, file_call>>
    /\ no_build

\* at most MaxFileNodes node pairs are built before the file is saved, and at
\* most MaxFileCalls calls of the file tools are made
MaxFileNodes == 2

MaxFileCalls == 2

\* the ids of the nodes of the file, and one that is not among them
FileIds ==
    (IF files = <<>> THEN {} ELSE {files[1].nodes[i].id : i \in 1..Len(files[1].nodes)})
        \cup {"nope"}

\* after_node_id: none, the entry node or a wrapper of the file, an unknown id
AfterIds ==
    (IF files = <<>> THEN {}
     ELSE {files[1].nodes[i].id :
              i \in {j \in 1..Len(files[1].nodes) :
                        files[1].nodes[j].type \in {"start", "block"}}})
        \cup {None, "nope"}

\* the nodes add_node_to_workflow is asked for, one of them of a type it does
\* not support
NewNodes ==
    {<<"textReply", [text |-> "new"]>>,
     <<"captureUserReply", [variable_name |-> "city"]>>,
     <<"llmVariableAssignment", [prompt |-> "extract"]>>,
     <<"llMReply", [prompt |-> "reply"]>>,
     <<"code", [code |-> "pass"]>>}

FileNext ==
    \/ /\ file_pc = "building" /\ nodes = <<>>
       /\ add_start_node /\ UNCHANGED file_vars /\ only_files
    \/ /\ file_pc = "building" /\ start_node # <<>>
       /\ functional_node_count < MaxFileNodes
       /\ add_text_reply("Hi", "Response", TRUE) /\ UNCHANGED file_vars /\ only_files
    \/ /\ file_pc = "building" /\ start_node # <<>>
       /\ functional_node_count < MaxFileNodes
       /\ add_capture_user_reply("name", "user name", "Capture", TRUE)
       /\ UNCHANGED file_vars /\ only_files
    \/ save /\ only_files
    \/ \E new_node \in NewNodes, after_node_id \in AfterIds :
           /\ file_calls < MaxFileCalls
           /\ add_node_to_workflow(new_node[1], new_node[2], after_node_id)
           /\ only_files
    \/ add_node_to_workflow_add /\ only_files
    \/ add_node_to_workflow_save /\ only_files
    \/ \E node_id \in FileIds :
           /\ file_calls < MaxFileCalls
           /\ delete_node_from_workflow(node_id)
           /\ only_files

FileSpec == Init /\ [][FileNext]_vars

\* seq2 is seq1 with k elements added at its end
Extends(seq1, seq2, k) ==
    /\ Len(seq2) = Len(seq1) + k
    /\ SubSeq(seq2, 1, Len(seq1)) = seq1

\* C37: add_node_to_workflow keeps every existing node, edge and variable of the
\* file and adds only the new functional node, its wrapper and, when
\* after_node_id is given, one edge from after_node_id to the new wrapper.
C37_AddKeeps ==
    (file_pc = "stored" /\ file_result.op = "add_node_to_workflow"
        /\ file_result.ret.success)
        => LET before == file_result.before[1]
               after  == files[1]
           IN  /\ Extends(before.nodes, after.nodes, 2)
               /\ after.nodes[Len(after.nodes) - 1].type = file_result.args.node_type
               /\ after.nodes[Len(after.nodes)].type = "block"
               /\ after.nodes[Len(after.nodes)].id = file_result.ret.new_node_id
               /\ \A i \in 1..Len(before.variables) :
                     \E j \in 1..Len(after.variables) :
                        after.variables[j] = before.variables[i]
               /\ IF truthy(file_result.args.after_node_id)
                  THEN /\ Extends(before.edges, after.edges, 1)
                       /\ Last(after.edges).source = file_result.args.after_node_id
                       /\ Last(after.edges).target = file_result.ret.new_node_id
                  ELSE after.edges = before.edges

\* C38: delete_node_from_workflow with an id present in the file removes exactly
\* the nodes with that id and every edge whose source or target is that id, and
\* leaves all other nodes and edges, in order, and the rest of the file as they
\* were; with an id not present it returns a failure and does not rewrite the
\* file.
C38_DeleteExactly ==
    [][(file_result'.op = "delete_node_from_workflow" /\ file_calls' # file_calls
          /\ file_pc' = file_pc)
       => LET node_id == file_result'.args.node_id
              before  == files[1]
              present == /\ files # <<>>
                         /\ \E i \in 1..Len(before.nodes) : before.nodes[i].id = node_id
          IN  IF present
              THEN /\ file_result'.ret.success
                   /\ file_result'.ret.deleted_node_id = node_id
                   /\ files'[1].nodes
                         = SelectSeq(before.nodes, LAMBDA n : n.id # node_id)
                   /\ files'[1].edges
                         = SelectSeq(before.edges,
                                     LAMBDA e : node_id \notin {e.source, e.target})
                   /\ \A k \in DOMAIN before \ {"nodes", "edges"} :
                         files'[1][k] = before[k]
                   /\ DOMAIN files'[1] = DOMAIN before
              ELSE /\ ~file_result'.ret.success
                   /\ files' = files]_vars

\* a wrapper with an edge into it and an edge out of it was deleted from a file
\* that holds other nodes and another edge
C38_Witness ==
    /\ file_result.op = "delete_node_from_workflow"
    /\ file_result.ret.success
    /\ LET before == file_result.before[1]
           node_id == file_result.args.node_id
       IN  /\ \E i \in 1..Len(before.edges) : before.edges[i].source = node_id
           /\ \E i \in 1..Len(before.edges) : before.edges[i].target = node_id
           /\ Len(files[1].edges) < Len(before.edges)
           /\ Len(files[1].nodes) = Len(before.nodes) - 1
           /\ Len(files[1].nodes) >= 4

\* -------------------------------------------------- simple_hierarchical_layout
\* Iterating over the set remaining visits its members in an order the
\* interpreter chooses: the order of a layer, and the node that breaks a cycle,
\* are any the set allows.

\* what the steps of this section leave alone
only_layout ==
    UNCHANGED <<builder_vars, uuid_count, calls, last_call, tool_vars, other,
                chat_vars, stream_vars, file_vars>>

\* {n['id'] for n in nodes}
node_ids(node_list) == {node_list[i].id : i \in 1..Len(node_list)}

\* the edges that count: source and target both among the nodes
counted(node_list, edge_list) ==
    {i \in 1..Len(edge_list) :
        /\ get(edge_list[i], "source", None) \in node_ids(node_list)
        /\ get(edge_list[i], "target", None) \in node_ids(node_list)}

\* the orders a set can be visited in
Orders(S) == {f \in [1..Cardinality(S) -> S] : \A i, j \in DOMAIN f : f[i] = f[j] => i = j}

\* A variant that takes a node into the layer while one edge into it is left
ready_early(rem, degree) == {nid \in rem : degree[nid] <= 1}

\* the nodes of remaining with in-degree 0
ready(rem, degree) == {nid \in rem : degree[nid] = 0}

\* the positions of the nodes of the layers, layer by layer
node_positions(layer_list) ==
    [nid \in UNION {{layer_list[k][i] : i \in 1..Len(layer_list[k])} :
                       k \in 1..Len(layer_list)} |->
        LET k           == CHOOSE k \in 1..Len(layer_list) :
                              \E i \in 1..Len(layer_list[k]) : layer_list[k][i] = nid
            i           == CHOOSE i \in 1..Len(layer_list[k]) : layer_list[k][i] = nid
            layer_width == Len(layer_list[k]) * (220 + 80) - 80
            start_x     == (1200 - layer_width) \div 2
        IN  [x |-> start_x + (i - 1) * (220 + 80),
             y |-> 50 + (k - 1) * (100 + 120)]]

\* simple_hierarchical_layout up to its loop: an empty node list is returned as
\* it is
simple_hierarchical_layout ==
    /\ layout_pc = "called"
    /\ IF layout_nodes = <<>>
       THEN /\ layout_result' = <<layout_nodes>>
            /\ layout_pc' = "done"
            /\ UNCHANGED <<remaining, in_degree>>
       ELSE /\ remaining' = node_ids(layout_nodes)
            /\ in_degree' =
                  [nid \in node_ids(layout_nodes) |->
                      Cardinality({i \in counted(layout_nodes, layout_edges) :
                                      layout_edges[i].target = nid})]
            /\ layout_pc' = "layering"
            /\ UNCHANGED layout_result
    /\ UNCHANGED <<layout_nodes, layout_edges, layers>>

\* one turn of the loop: the next layer
next_layer(current_layer) ==
    /\ layout_pc = "layering"
    /\ remaining # {}
    /\ IF ready(remaining, in_degree) # {}
       THEN current_layer \in Orders(ready(remaining, in_degree))
       ELSE \E nid \in remaining : current_layer = <<nid>>
    /\ layers' = Append(layers, current_layer)
    /\ remaining' = remaining \ {current_layer[i] : i \in 1..Len(current_layer)}
    /\ in_degree' =
          [nid \in DOMAIN in_degree |->
              in_degree[nid]
                - Cardinality({i \in counted(layout_nodes, layout_edges) :
                      /\ layout_edges[i].target = nid
                      /\ \E j \in 1..Len(current_layer) :
                            current_layer[j] = layout_edges[i].source})]
    /\ UNCHANGED <<layout_pc, layout_nodes, layout_edges, layout_result>>

\* after the loop: the positions, and the nodes with their positions replaced
place_nodes ==
    /\ layout_pc = "layering"
    /\ remaining = {}
    /\ layout_result' =
          <<[i \in 1..Len(layout_nodes) |->
                IF layout_nodes[i].id \in DOMAIN node_positions(layers)
                THEN [layout_nodes[i] EXCEPT
                         !.position = node_positions(layers)[layout_nodes[i].id]]
                ELSE layout_nodes[i]]>>
    /\ layout_pc' = "done"
    /\ UNCHANGED <<layout_nodes, layout_edges, remaining, in_degree, layers>>

\* the inputs have at most MaxLayoutNodes nodes and MaxLayoutEdges edges
MaxLayoutNodes == 3

MaxLayoutEdges == 2

LayoutIds == {"a", "b", "c"}

\* node lists, ids repeated or not
LayoutNodeLists ==
    SeqsUpTo({[id |-> nid, position |-> [x |-> 0, y |-> 0]] : nid \in LayoutIds},
             MaxLayoutNodes)

\* edge lists: edges along a -> b -> c and a -> c, edges back, a self-loop,
\* repeated edges, and edges from and to an id no node has
LayoutEdgeLists ==
    SeqsUpTo({[source |-> e[1], target |-> e[2]] :
                 e \in {<<"a", "b">>, <<"b", "c">>, <<"a", "c">>, <<"b", "a">>,
                        <<"c", "a">>, <<"a", "a">>, <<"a", "x">>, <<"x", "a">>}},
             MaxLayoutEdges)

LayoutInit ==
    /\ workflow_init
    /\ \E nodes_in \in LayoutNodeLists, edges_in \in LayoutEdgeLists :
          layout_init(nodes_in, edges_in)

LayoutNext ==
    \/ simple_hierarchical_layout /\ only_layout
    \/ \E current_layer \in SeqsUpTo(LayoutIds, Cardinality(LayoutIds)) :
           next_layer(current_layer) /\ only_layout
    \/ place_nodes /\ only_layout

LayoutSpec == LayoutInit /\ [][LayoutNext]_vars

\* the function runs on: nothing in it waits
LayoutLive == LayoutSpec /\ WF_vars(LayoutNext)

\* the pairs (source, target) with a path of counted edges from source to target
RECURSIVE Paths(_, _)
Paths(R, n) ==
    IF n = 0 THEN R
    ELSE Paths(R \cup {<<pq[1][1], pq[2][2]>> :
                           pq \in {pq \in R \X R : pq[1][2] = pq[2][1]}}, n - 1)

\* the input has no cycle among the edges that count
Acyclic ==
    LET E == {<<layout_edges[i].source, layout_edges[i].target>> :
                 i \in counted(layout_nodes, layout_edges)}
    IN  \A nid \in node_ids(layout_nodes) : <<nid, nid>> \notin Paths(E, 3)

\* the number of the layer nid is in
LayerOf(nid) ==
    CHOOSE k \in 1..Len(layers) : \E i \in 1..Len(layers[k]) : layers[k][i] = nid

\* C39 (state part): once the function has returned, every node id is in exactly
\* one layer, once; every node of the result has the position of its place in
\* its layer; and for an acyclic input the source of every edge between nodes
\* lies in a strictly earlier layer, at a smaller y, than its target.
C39_Layers ==
    (layout_pc = "done" /\ layout_nodes # <<>>)
        => /\ \A nid \in node_ids(layout_nodes) :
                 Cardinality({<<k, i>> \in (1..Len(layers)) \X (1..Len(layout_nodes)) :
                                 i <= Len(layers[k]) /\ layers[k][i] = nid}) = 1
           /\ \A k \in 1..Len(layers) :
                 /\ layers[k] # <<>>
                 /\ \A i \in 1..Len(layers[k]) : layers[k][i] \in node_ids(layout_nodes)
           /\ Len(layout_result[1]) = Len(layout_nodes)
           /\ \A i \in 1..Len(layout_nodes) :
                 /\ layout_result[1][i].id = layout_nodes[i].id
                 /\ layout_result[1][i].position.y
                       = 50 + 220 * (LayerOf(layout_nodes[i].id) - 1)
           /\ Acyclic
                 => \A i \in counted(layout_nodes, layout_edges) :
                       \A s, t \in 1..Len(layout_nodes) :
                          (layout_nodes[s].id = layout_edges[i].source
                              /\ layout_nodes[t].id = layout_edges[i].target)
                             => /\ LayerOf(layout_nodes[s].id) < LayerOf(layout_nodes[t].id)
                                /\ layout_result[1][s].position.y
                                      < layout_result[1][t].position.y

\* C39: simple_hierarchical_layout terminates for every node and edge input,
\* graphs with cycles, self-loops, repeated edges and edges naming unknown ids
\* among them; it places each node in exactly one layer and gives every node a
\* position, and for an acyclic input every edge's source is in a strictly
\* earlier layer (smaller y) than its target.
C39_Terminates ==
    /\ []C39_Layers
    /\ [](Len(layers) <= Len(layout_nodes))
    /\ <>(layout_pc = "done")

\* a chain a -> b -> c was laid out in three layers
C39_Witness ==
    /\ layout_pc = "done"
    /\ Len(layout_nodes) = 3
    /\ Len(layout_edges) = 2
    /\ Cardinality(counted(layout_nodes, layout_edges)) = 2
    /\ Acyclic
    /\ Len(layers) = 3
    /\ layout_result[1][1].position.y # layout_result[1][2].position.y

====
